---- MODULE Spec2Model ----
(***************************************************************************)
(* A model of the kibank container codec: the item classifier (lib.rs),    *)
(* the container writer (write.rs), the container reader (read.rs) and    *)
(* the extract command of the kibank tool (bin/kibank.rs).                 *)
(*                                                                         *)
(* Bytes are the integers 0..255; byte strings, paths and the container    *)
(* itself are sequences of bytes.  A u64 is kept as the 8 bytes of its     *)
(* little-endian encoding, so that 64-bit arithmetic keeps its width:      *)
(* sums are computed with carry and an overflow is either a panic (a build *)
(* with overflow checks) or a wrap modulo 2^64 (a build without).          *)
(***************************************************************************)
EXTENDS Integers, Sequences, FiniteSets, TLC

VARIABLES
  items,      \* BankWriter.items: the pending items, in insertion order
  written,    \* BankWriter.written
  sink,       \* every byte the writer's inner Write has accepted so far
  call,       \* the writer operation called last
  result,     \* what that call returned: "Ok" or "Err"
  failed,     \* number of write() calls that returned Err before sealing
  src,        \* the bytes of the reader's source
  checks,     \* TRUE: the build panics on integer overflow; FALSE: it wraps
  rd,         \* outcome of BankReader::new: "none", "open", "err", "panic"
  rdError,    \* the error of BankReader::new when the outcome is "err"
  rdItems,    \* BankReader.items: the catalog
  pos,        \* stream position of the reader's source (a u64)
  out,        \* outcome of the reader operation called last
  q,          \* the input and the answer of a classifier query
  ex,         \* the kibank tool's extract run: its progress and what it made
  cr          \* the kibank tool's create run: its inputs and its progress

vars == <<items, written, sink, call, result, failed, src, checks, rd, rdError, rdItems, pos, out, q, ex, cr>>

writerVars == <<items, written, sink, call, result, failed>>
readerVars == <<src, checks, rd, rdError, rdItems, pos, out>>

----------------------------------------------------------------------------
(* Sequences and bytes                                                     *)

None == [some |-> FALSE, v |-> <<>>]
Some(x) == [some |-> TRUE, v |-> x]

Min(a, b) == IF a < b THEN a ELSE b

\* s[from..], 1-based; the empty sequence when from is past the end.
Drop(s, from) == SubSeq(s, from, Len(s))

Take(s, n) == SubSeq(s, 1, Min(n, Len(s)))

\* Index of the first b in s at or after position from, 0 when there is none.
RECURSIVE IndexFrom(_, _, _)
IndexFrom(s, b, from) ==
  IF from > Len(s) THEN 0
  ELSE IF s[from] = b THEN from
  ELSE IndexFrom(s, b, from + 1)

\* Index of the last b in s, 0 when there is none.
RECURSIVE LastIndex(_, _, _)
LastIndex(s, b, upto) ==
  IF upto = 0 THEN 0
  ELSE IF s[upto] = b THEN upto
  ELSE LastIndex(s, b, upto - 1)

----------------------------------------------------------------------------
(* u64: the 8 little-endian bytes                                          *)

U64Bytes == 8

\* write_u64::<LittleEndian> of a value below 2^31: the low bytes first.
RECURSIVE LE(_, _)
LE(n, k) == IF k = 0 THEN <<>> ELSE <<n % 256>> \o LE(n \div 256, k - 1)

U64(n) == LE(n, U64Bytes)

U64Zero == U64(0)

\* The u64 2^64 - n, for 1 <= n <= 256.
U64Neg(n) == <<256 - n>> \o [i \in 1..(U64Bytes - 1) |-> 255]

\* TRUE when the u64 is below 2^31 and so has a value TLC can compute with.
Small(a) == a[4] < 128 /\ \A i \in 5..U64Bytes : a[i] = 0

ToNat(a) == a[1] + 256 * a[2] + 65536 * a[3] + 16777216 * a[4]

\* a < b as unsigned integers: the most significant differing byte decides.
RECURSIVE LessFrom(_, _, _)
LessFrom(a, b, i) ==
  IF i = 0 THEN FALSE
  ELSE IF a[i] # b[i] THEN a[i] < b[i]
  ELSE LessFrom(a, b, i - 1)

U64Less(a, b) == LessFrom(a, b, U64Bytes)

U64Leq(a, b) == ~U64Less(b, a)

\* The carry out of byte i when a and b are added from the low byte up.
RECURSIVE Carry(_, _, _)
Carry(a, b, i) == IF i = 0 THEN 0 ELSE (a[i] + b[i] + Carry(a, b, i - 1)) \div 256

\* The bytes of a + b from byte i on.
RECURSIVE SumFrom(_, _, _)
SumFrom(a, b, i) ==
  IF i > U64Bytes THEN <<>>
  ELSE <<(a[i] + b[i] + Carry(a, b, i - 1)) % 256>> \o SumFrom(a, b, i + 1)

\* a + b in 64 bits: the wrapped sum and whether it overflowed.
U64Add(a, b) == [sum |-> SumFrom(a, b, 1), overflow |-> Carry(a, b, U64Bytes) = 1]

----------------------------------------------------------------------------
(* lib.rs: constants                                                       *)

FILE_ID == <<137, 107, 72, 115>>                            \* 0x89 k H s
FORMAT_VERSION == <<66, 97, 110, 107, 48, 48, 48, 49>>      \* Bank0001
BACKGROUND_FILE_STEM == <<98, 97, 99, 107, 103, 114, 111, 117, 110, 100>>  \* background
CORRUPTION_CHECK_BYTES == <<13, 10, 26, 10>>
PATH_SEPARATOR == 47                                        \* '/'
FILE_NAME == <<105, 110, 100, 101, 120, 46, 106, 115, 111, 110>>  \* index.json
BLOCK_SIZE == U64Bytes * 3
SamplesDir == <<115, 97, 109, 112, 108, 101, 115>>          \* samples
Dot == 46                                                   \* '.'

----------------------------------------------------------------------------
(* Text: UTF-8 and the lossy conversion of a file name                     *)

REPLACEMENT == <<239, 191, 189>>     \* U+FFFD in UTF-8

IsCont(b) == b >= 128 /\ b <= 191

\* Number of bytes of the UTF-8 sequence a lead byte announces, 0 for a byte
\* that cannot start one.
Utf8Width(b) ==
  IF b < 128 THEN 1
  ELSE IF b >= 194 /\ b <= 223 THEN 2
  ELSE IF b >= 224 /\ b <= 239 THEN 3
  ELSE IF b >= 240 /\ b <= 244 THEN 4
  ELSE 0

\* Whether c may follow the lead byte b as the second byte of its sequence.
SecondOk(b, c) ==
  IF b = 224 THEN c >= 160 /\ c <= 191
  ELSE IF b = 237 THEN c >= 128 /\ c <= 159
  ELSE IF b = 240 THEN c >= 144 /\ c <= 191
  ELSE IF b = 244 THEN c >= 128 /\ c <= 143
  ELSE IsCont(c)

\* How many of the bytes of s after its lead byte continue the lead's sequence,
\* counting from the k-th byte, at most up to the announced width w.
RECURSIVE ContRun(_, _, _)
ContRun(s, k, w) ==
  IF k > w \/ k > Len(s) THEN 0
  ELSE IF (IF k = 2 THEN SecondOk(s[1], s[k]) ELSE IsCont(s[k]))
       THEN 1 + ContRun(s, k + 1, w)
       ELSE 0

\* String::from_utf8_lossy(..).as_bytes(): valid sequences are kept, each
\* maximal invalid part becomes one U+FFFD.
RECURSIVE ToStringLossy(_)
ToStringLossy(s) ==
  IF s = <<>> THEN <<>>
  ELSE LET w == Utf8Width(s[1])
           n == IF w = 0 THEN 0 ELSE ContRun(s, 2, w)
       IN  IF w > 0 /\ n = w - 1
           THEN SubSeq(s, 1, w) \o ToStringLossy(Drop(s, w + 1))
           ELSE REPLACEMENT \o ToStringLossy(Drop(s, n + 2))

----------------------------------------------------------------------------
(* lib.rs: ItemKind                                                        *)

\* enum ItemKind, in declaration order (the order derive(Ord) compares by).
KindOrder ==
  << "Background", "Metadata", "Sample", "MultipassPreset",
     "PhasePlantPreset", "SnapHeapPreset", "ThreeBandEq", "Bitcrush",
     "CarveEq", "Chorus", "CombFilter", "Compressor",
     "Convolver", "Delay", "Disperser", "Distortion",
     "Dynamics", "Ensemble", "Faturator", "Filter",
     "Flanger", "FormatFilter", "FrequencyShifter", "Gain",
     "Gate", "Haas", "LadderFilter", "Limiter",
     "NonlinearFilter", "PhaseDistortion", "Phaser", "PitchShifter",
     "Resonator", "Reverb", "Reverser", "RingMod",
     "SliceEq", "Stereo", "TapeStop", "TranceGate",
     "TransientShaper" >>

\* ItemKind::all(), in the order the array lists the kinds.
AllKinds ==
  << "Background", "Metadata", "MultipassPreset", "PhasePlantPreset",
     "SnapHeapPreset", "Sample", "ThreeBandEq", "Bitcrush",
     "CarveEq", "Chorus", "CombFilter", "Compressor",
     "Convolver", "Delay", "Disperser", "Distortion",
     "Dynamics", "Ensemble", "Faturator", "Filter",
     "Flanger", "FormatFilter", "FrequencyShifter", "Gain",
     "Gate", "Haas", "LadderFilter", "Limiter",
     "NonlinearFilter", "PhaseDistortion", "Phaser", "PitchShifter",
     "Resonator", "Reverb", "Reverser", "RingMod",
     "SliceEq", "Stereo", "TapeStop", "TranceGate",
     "TransientShaper" >>

\* ItemKind::extensions: the extension list of each kind, as ASCII bytes.
extensions(kind) ==
  CASE kind = "Background" -> << <<106, 112, 103>>, <<112, 110, 103>> >>   \* jpg png
    [] kind = "Metadata" -> << <<106, 115, 111, 110>> >>   \* json
    [] kind = "Sample" -> << <<102, 108, 97, 99>>, <<109, 112, 51>>, <<119, 97, 118>> >>   \* flac mp3 wav
    [] kind = "MultipassPreset" -> << <<109, 117, 108, 116, 105, 112, 97, 115, 115>> >>   \* multipass
    [] kind = "PhasePlantPreset" -> << <<112, 104, 97, 115, 101, 112, 108, 97, 110, 116>> >>   \* phaseplant
    [] kind = "SnapHeapPreset" -> << <<115, 110, 97, 112, 104, 101, 97, 112>> >>   \* snapheap
    [] kind = "ThreeBandEq" -> << <<107, 115, 113, 101>> >>   \* ksqe
    [] kind = "Bitcrush" -> << <<107, 115, 98, 99>> >>   \* ksbc
    [] kind = "CarveEq" -> << <<107, 115, 103, 101>> >>   \* ksge
    [] kind = "Chorus" -> << <<107, 115, 99, 104>> >>   \* ksch
    [] kind = "CombFilter" -> << <<107, 115, 99, 102>> >>   \* kscf
    [] kind = "Compressor" -> << <<107, 115, 99, 112>> >>   \* kscp
    [] kind = "Convolver" -> << <<107, 115, 99, 111>> >>   \* ksco
    [] kind = "Delay" -> << <<107, 115, 100, 108>> >>   \* ksdl
    [] kind = "Disperser" -> << <<107, 100, 115, 112>> >>   \* kdsp
    [] kind = "Distortion" -> << <<107, 115, 100, 116>> >>   \* ksdt
    [] kind = "Dynamics" -> << <<107, 115, 111, 116>> >>   \* ksot
    [] kind = "Ensemble" -> << <<107, 115, 117, 110>> >>   \* ksun
    [] kind = "Faturator" -> << <<107, 102, 97, 116>> >>   \* kfat
    [] kind = "Filter" -> << <<107, 115, 102, 105>> >>   \* ksfi
    [] kind = "Flanger" -> << <<107, 115, 102, 108>> >>   \* ksfl
    [] kind = "FormatFilter" -> << <<107, 115, 118, 102>> >>   \* ksvf
    [] kind = "FrequencyShifter" -> << <<107, 115, 102, 115>> >>   \* ksfs
    [] kind = "Gain" -> << <<107, 115, 103, 110>> >>   \* ksgn
    [] kind = "Gate" -> << <<107, 115, 103, 116>> >>   \* ksgt
    [] kind = "Haas" -> << <<107, 115, 104, 97>> >>   \* ksha
    [] kind = "LadderFilter" -> << <<107, 115, 108, 97>> >>   \* ksla
    [] kind = "Limiter" -> << <<107, 115, 108, 116>> >>   \* kslt
    [] kind = "NonlinearFilter" -> << <<107, 115, 100, 102>> >>   \* ksdf
    [] kind = "PhaseDistortion" -> << <<107, 115, 112, 100>> >>   \* kspd
    [] kind = "Phaser" -> << <<107, 115, 112, 104>> >>   \* ksph
    [] kind = "PitchShifter" -> << <<107, 115, 112, 115>> >>   \* ksps
    [] kind = "Resonator" -> << <<107, 115, 114, 101>> >>   \* ksre
    [] kind = "Reverb" -> << <<107, 115, 114, 118>> >>   \* ksrv
    [] kind = "Reverser" -> << <<107, 115, 114, 114>> >>   \* ksrr
    [] kind = "RingMod" -> << <<107, 115, 114, 109>> >>   \* ksrm
    [] kind = "SliceEq" -> << <<107, 112, 101, 113>> >>   \* kpeq
    [] kind = "Stereo" -> << <<107, 115, 115, 116>> >>   \* ksst
    [] kind = "TapeStop" -> << <<107, 115, 116, 115>> >>   \* ksts
    [] kind = "TranceGate" -> << <<107, 115, 116, 103>> >>   \* kstg
    [] kind = "TransientShaper" -> << <<107, 115, 116, 114>> >>   \* kstr

Kinds == {KindOrder[i] : i \in 1..Len(KindOrder)}

\* A directory taken from the extension list for Sample too.
first_extension(kind) ==
  IF kind \in {"Background", "Metadata"} THEN None ELSE Some(Head(extensions(kind)))

\* ItemKind::directory
directory(kind) ==
  IF kind \in {"Background", "Metadata"} THEN None
  ELSE IF kind = "Sample" THEN Some(SamplesDir)
  ELSE IF extensions(kind) = <<>> THEN None
  ELSE Some(Head(extensions(kind)))

\* u8::to_ascii_lowercase
ToAsciiLower(c) == IF c >= 65 /\ c <= 90 THEN c + 32 ELSE c

\* eq_ignore_ascii_case on byte strings
EqIgnoreAsciiCase(a, b) ==
  /\ Len(a) = Len(b)
  /\ \A i \in 1..Len(a) : ToAsciiLower(a[i]) = ToAsciiLower(b[i])

\* ItemKind::has_extension
has_extension(kind, extension) ==
  \E i \in 1..Len(extensions(kind)) : EqIgnoreAsciiCase(extensions(kind)[i], extension)

\* The components of a path: the pieces between separators, without the empty
\* ones and the "." ones (std::path::Path::components on a Unix host).
RECURSIVE Components(_)
Components(p) ==
  IF p = <<>> THEN <<>>
  ELSE LET k == IndexFrom(p, PATH_SEPARATOR, 1)
           piece == IF k = 0 THEN p ELSE SubSeq(p, 1, k - 1)
           rest == IF k = 0 THEN <<>> ELSE Drop(p, k + 1)
       IN  (IF piece = <<>> \/ piece = <<Dot>> THEN <<>> ELSE <<piece>>) \o Components(rest)

\* The last component of a path, unless there is none or it is "..".
LastComponent(cs) ==
  IF cs = <<>> \/ cs[Len(cs)] = <<Dot, Dot>> THEN None ELSE Some(cs[Len(cs)])

\* Path::file_name
PathFileName(p) == LastComponent(Components(p))

\* The part of a file name before its last dot; the whole name when it has no
\* dot or only a leading one.
StemOf(f) ==
  IF ~f.some THEN None
  ELSE LET k == LastIndex(f.v, Dot, Len(f.v)) IN
       IF k <= 1 THEN f ELSE Some(SubSeq(f.v, 1, k - 1))

\* Path::file_stem
PathFileStem(p) == StemOf(PathFileName(p))

\* The part of a file name after its last dot; none when the name has no dot
\* or only a leading one.
ExtensionOf(f) ==
  IF ~f.some THEN None
  ELSE LET k == LastIndex(f.v, Dot, Len(f.v)) IN
       IF k <= 1 THEN None ELSE Some(Drop(f.v, k + 1))

\* Path::extension
PathExtension(p) == ExtensionOf(PathFileName(p))

\* Option::unwrap_or_default on an optional byte string
UnwrapOrDefault(o) == IF o.some THEN o.v ELSE <<>>

\* The name ItemKind::from compares with the background stem.
BackgroundName(p) == UnwrapOrDefault(PathFileName(p))

\* ItemKind::from: the first kind of all() that has the extension.
RECURSIVE FindKind(_, _)
FindKind(ks, extension) ==
  IF ks = <<>> THEN "None"
  ELSE IF has_extension(Head(ks), extension) THEN Head(ks)
  ELSE FindKind(Tail(ks), extension)

\* ItemKind::from
from(p) ==
  IF EqIgnoreAsciiCase(UnwrapOrDefault(PathFileName(p)), FILE_NAME) THEN "Metadata"
  ELSE IF EqIgnoreAsciiCase(BackgroundName(p), BACKGROUND_FILE_STEM) THEN "Background"
  ELSE IF ~PathExtension(p).some THEN "None"
  ELSE FindKind(AllKinds, ToStringLossy(PathExtension(p).v))

----------------------------------------------------------------------------
(* write.rs: BankWriter                                                    *)

\* write::Item::file_name_bytes
file_name_bytes(item) == ToStringLossy(item.path_os)

\* A writer that takes items whatever its state.
NeverRefused(w) == FALSE

\* BankWriter::add: the check that refuses a sealed writer.
AddRefused(w) == w

\* BankWriter::add: the path stored with the item.
StoredPath(kind, file_name) ==
  IF directory(kind).some
  THEN directory(kind).v \o <<PATH_SEPARATOR>> \o file_name
  ELSE file_name

\* BankWriter::add: the item list after the call.
add(its, kind, file_name, contents) ==
  Append(its, [kind |-> kind, contents |-> contents, path_os |-> StoredPath(kind, file_name)])

----------------------------------------------------------------------------
(* lib.rs: Metadata.  A String is a sequence of characters (code points    *)
(* below 256); an Option is None or Some(value); extra is a sequence of    *)
(* [k, v] pairs, k a String and v a JSON value.                            *)

JNull == [t |-> "null", s |-> <<>>, n |-> 0]
JStr(s) == [t |-> "str", s |-> s, n |-> 0]
JNum(n) == [t |-> "num", s |-> <<>>, n |-> n]

\* Metadata::default()
DefaultMetadata ==
  [version |-> None, id |-> <<>>, name |-> <<>>, author |-> <<>>,
   description |-> <<>>, hash |-> None, extra |-> <<>>]

\* char::is_alphanumeric, for the characters below 256.
IsAlphanumeric(c) ==
  \/ c >= 48 /\ c <= 57
  \/ c >= 65 /\ c <= 90
  \/ c >= 97 /\ c <= 122
  \/ c \in {170, 178, 179, 181, 185, 186, 188, 189, 190}
  \/ c >= 192 /\ c <= 255 /\ c \notin {215, 247}

\* Metadata::sanitize_id: the case mapping applied to a kept character.
SanitizeCase(c) == ToAsciiLower(c)

\* Metadata::sanitize_id
RECURSIVE sanitize_id(_)
sanitize_id(str) ==
  IF str = <<>> THEN <<>>
  ELSE (IF IsAlphanumeric(Head(str)) \/ Head(str) = Dot
        THEN <<SanitizeCase(Head(str))>> ELSE <<>>) \o sanitize_id(Tail(str))

\* [String]::join
RECURSIVE Join(_, _)
Join(parts, sep) ==
  IF parts = <<>> THEN <<>>
  ELSE IF Len(parts) = 1 THEN Head(parts)
  ELSE Head(parts) \o sep \o Join(Tail(parts), sep)

\* BankWriter::add_metadata: the parts of the id that are not empty.
IdParts(author_part, name_part) ==
  (IF author_part # <<>> THEN <<author_part>> ELSE <<>>)
  \o (IF name_part # <<>> THEN <<name_part>> ELSE <<>>)

\* BankWriter::add_metadata: the id made from the author and the name.
SynthesizedId(author, name) == Join(IdParts(sanitize_id(author), sanitize_id(name)), <<Dot>>)

\* BankWriter::add_metadata: the record that is serialized.
PatchedMetadata(metadata) ==
  IF metadata.id = <<>>
  THEN [version |-> metadata.version,
        id |-> SynthesizedId(metadata.author, metadata.name),
        name |-> metadata.name,
        author |-> metadata.author,
        description |-> metadata.description,
        hash |-> metadata.hash,
        extra |-> metadata.extra]
  ELSE metadata

----------------------------------------------------------------------------
(* serde_json, as write.rs and read.rs use it: to_vec_pretty writes the    *)
(* record as an indented JSON object in UTF-8, from_slice parses one.      *)

Key_version == <<118, 101, 114, 115, 105, 111, 110>>
Key_id == <<105, 100>>
Key_name == <<110, 97, 109, 101>>
Key_author == <<97, 117, 116, 104, 111, 114>>
Key_description == <<100, 101, 115, 99, 114, 105, 112, 116, 105, 111, 110>>
Key_hash == <<104, 97, 115, 104>>
Key_null == <<110, 117, 108, 108>>
Quote == 34
Backslash == 92

\* A character in UTF-8 (one or two bytes: the characters are below 2048).
Utf8Char(c) == IF c < 128 THEN <<c>> ELSE <<192 + (c \div 64), 128 + (c % 64)>>

\* The inside of a JSON string: quotes and backslashes escaped.
RECURSIVE JsonEscape(_)
JsonEscape(str) ==
  IF str = <<>> THEN <<>>
  ELSE (IF Head(str) \in {Quote, Backslash} THEN <<Backslash, Head(str)>>
        ELSE Utf8Char(Head(str))) \o JsonEscape(Tail(str))

JsonString(str) == <<Quote>> \o JsonEscape(str) \o <<Quote>>

RECURSIVE Digits(_)
Digits(n) == IF n < 10 THEN <<48 + n>> ELSE Digits(n \div 10) \o <<48 + (n % 10)>>

JsonValue(v) ==
  IF v.t = "null" THEN Key_null
  ELSE IF v.t = "num" THEN Digits(v.n)
  ELSE JsonString(v.s)

OptNum(o) == IF o.some THEN JNum(o.v) ELSE JNull
OptStr(o) == IF o.some THEN JStr(o.v) ELSE JNull

\* The members serde writes for a Metadata, in field order, extra flattened.
Members(m) ==
  << [k |-> Key_version, v |-> OptNum(m.version)],
     [k |-> Key_id, v |-> JStr(m.id)],
     [k |-> Key_name, v |-> JStr(m.name)],
     [k |-> Key_author, v |-> JStr(m.author)],
     [k |-> Key_description, v |-> JStr(m.description)],
     [k |-> Key_hash, v |-> OptStr(m.hash)] >> \o m.extra

\* One member on its own indented line: newline, two spaces, "key": value.
PrettyMember(e) == <<10, 32, 32>> \o JsonString(e.k) \o <<58, 32>> \o JsonValue(e.v)

RECURSIVE PrettyMembers(_)
PrettyMembers(es) ==
  IF es = <<>> THEN <<>>
  ELSE PrettyMember(Head(es)) \o (IF Len(es) > 1 THEN <<44>> ELSE <<>>) \o PrettyMembers(Tail(es))

\* serde_json::to_vec_pretty(&Metadata)
to_vec_pretty(m) == <<123>> \o PrettyMembers(Members(m)) \o <<10, 125>>

IsWs(b) == b \in {32, 10, 13, 9}

RECURSIVE SkipWs(_, _)
SkipWs(b, i) == IF i <= Len(b) /\ IsWs(b[i]) THEN SkipWs(b, i + 1) ELSE i

Fail == [ok |-> FALSE, v |-> JNull, next |-> 0]

\* The characters of a JSON string whose opening quote is before position i.
RECURSIVE ParseChars(_, _, _)
ParseChars(b, i, acc) ==
  IF i > Len(b) THEN Fail
  ELSE IF b[i] = Quote THEN [ok |-> TRUE, v |-> JStr(acc), next |-> i + 1]
  ELSE IF b[i] = Backslash
       THEN IF i + 1 <= Len(b) /\ b[i + 1] \in {Quote, Backslash}
            THEN ParseChars(b, i + 2, Append(acc, b[i + 1]))
            ELSE Fail
  ELSE IF b[i] < 32 THEN Fail
  ELSE IF b[i] < 128 THEN ParseChars(b, i + 1, Append(acc, b[i]))
  ELSE IF b[i] >= 194 /\ b[i] <= 223 /\ i + 1 <= Len(b) /\ IsCont(b[i + 1])
       THEN ParseChars(b, i + 2, Append(acc, (b[i] - 192) * 64 + (b[i + 1] - 128)))
  ELSE Fail

RECURSIVE ParseDigits(_, _, _)
ParseDigits(b, i, acc) ==
  IF i <= Len(b) /\ b[i] >= 48 /\ b[i] <= 57 /\ acc < 100000
  THEN ParseDigits(b, i + 1, acc * 10 + (b[i] - 48))
  ELSE [ok |-> TRUE, v |-> JNum(acc), next |-> i]

\* A JSON value at position i: a string, null or an unsigned number.
ParseValue(b, i) ==
  IF i > Len(b) THEN Fail
  ELSE IF b[i] = Quote THEN ParseChars(b, i + 1, <<>>)
  ELSE IF SubSeq(b, i, Min(i + 3, Len(b))) = Key_null
       THEN [ok |-> TRUE, v |-> JNull, next |-> i + 4]
  ELSE IF b[i] >= 48 /\ b[i] <= 57 THEN ParseDigits(b, i, 0)
  ELSE Fail

\* What the parser makes of an object that is not well formed.
NoMembers == [ok |-> FALSE, v |-> <<>>, next |-> 0]

\* The members of an object from position i (at a key's opening quote) on: a
\* key, a colon, a value, then a comma and the next member, or the closing brace.
RECURSIVE ParseMembers(_, _, _)

\* After a member's value, which ended before position after.
MemberEnd(b, got, after) ==
  IF after > Len(b) THEN NoMembers
  ELSE IF b[after] = 125 THEN [ok |-> TRUE, v |-> got, next |-> after + 1]
  ELSE IF b[after] = 44 THEN ParseMembers(b, SkipWs(b, after + 1), got)
  ELSE NoMembers

\* After a member's colon: val is what the parser made of the value.
MemberValue(b, acc, key, val) ==
  IF ~val.ok THEN NoMembers
  ELSE MemberEnd(b, Append(acc, [k |-> key.v.s, v |-> val.v]), SkipWs(b, val.next))

\* After a member's key, which ended before position colon.
MemberColon(b, acc, key, colon) ==
  IF colon > Len(b) \/ b[colon] # 58 THEN NoMembers
  ELSE MemberValue(b, acc, key, ParseValue(b, SkipWs(b, colon + 1)))

\* After the opening quote of a member's key: key is what the parser made of it.
MemberKey(b, acc, key) ==
  IF ~key.ok THEN NoMembers ELSE MemberColon(b, acc, key, SkipWs(b, key.next))

ParseMembers(b, i, acc) ==
  IF i > Len(b) \/ b[i] # Quote THEN NoMembers
  ELSE MemberKey(b, acc, ParseChars(b, i + 1, <<>>))

\* After the opening brace, with the first thing in the object at position first.
ObjectBody(b, first) ==
  IF first <= Len(b) /\ b[first] = 125
  THEN [ok |-> TRUE, v |-> <<>>, next |-> first + 1]
  ELSE ParseMembers(b, first, <<>>)

\* An object is the whole input when only whitespace follows it.
WholeInput(b, r) == IF r.ok /\ SkipWs(b, r.next) > Len(b) THEN r ELSE NoMembers

\* A whole JSON object and nothing after it, the opening brace at position open.
ObjectAt(b, open) ==
  IF open > Len(b) \/ b[open] # 123 THEN NoMembers
  ELSE WholeInput(b, ObjectBody(b, SkipWs(b, open + 1)))

ParseObject(b) == ObjectAt(b, SkipWs(b, 1))

HasKey(ms, key) == \E i \in 1..Len(ms) : ms[i].k = key
Lookup(ms, key) == ms[CHOOSE i \in 1..Len(ms) : ms[i].k = key].v
KnownKeys == {Key_version, Key_id, Key_name, Key_author, Key_description, Key_hash}

\* The members serde flattens into extra: those no field of Metadata takes.
RECURSIVE UnknownMembers(_)
UnknownMembers(ms) ==
  IF ms = <<>> THEN <<>>
  ELSE (IF Head(ms).k \notin KnownKeys THEN <<Head(ms)>> ELSE <<>>) \o UnknownMembers(Tail(ms))

OptOf(ms, key) ==
  IF ~HasKey(ms, key) \/ Lookup(ms, key).t = "null" THEN None
  ELSE IF Lookup(ms, key).t = "num" THEN Some(Lookup(ms, key).n)
  ELSE Some(Lookup(ms, key).s)

\* serde_json::from_slice into a Metadata, from the parsed object r.  The four
\* String fields must be present and strings, version a number or null, hash a
\* string or null; every other member goes to extra.
FromObject(r) ==
  IF /\ r.ok
     /\ \A key \in {Key_id, Key_name, Key_author, Key_description} :
          HasKey(r.v, key) /\ Lookup(r.v, key).t = "str"
     /\ HasKey(r.v, Key_version) => Lookup(r.v, Key_version).t \in {"num", "null"}
     /\ HasKey(r.v, Key_hash) => Lookup(r.v, Key_hash).t \in {"str", "null"}
  THEN [ok |-> TRUE,
        v |-> [version |-> OptOf(r.v, Key_version),
               id |-> Lookup(r.v, Key_id).s,
               name |-> Lookup(r.v, Key_name).s,
               author |-> Lookup(r.v, Key_author).s,
               description |-> Lookup(r.v, Key_description).s,
               hash |-> OptOf(r.v, Key_hash),
               extra |-> UnknownMembers(r.v)]]
  ELSE [ok |-> FALSE, v |-> DefaultMetadata]

\* BankReader::parse_metadata
parse_metadata(json) == FromObject(ParseObject(json))

\* BankWriter::add_metadata: the contents stored under index.json.
MetadataContents(metadata) == to_vec_pretty(PatchedMetadata(metadata))

\* A write() that leaves the item list as it finds it.
NoDefaultMetadata(its) == FALSE

\* BankWriter::write: whether the default metadata has to be added.
NeedsDefaultMetadata(its) == ~\E i \in 1..Len(its) : its[i].kind = "Metadata"

\* BankWriter::write: the item list once the default metadata is in.
WithDefaultMetadata(its) ==
  IF NeedsDefaultMetadata(its)
  THEN add(its, "Metadata", FILE_NAME, MetadataContents(DefaultMetadata))
  ELSE its

HasKind(its, kind) == \E i \in 1..Len(its) : its[i].kind = kind

\* BankWriter::write: the order in which the kinds present are laid out.
LayoutOrder == KindOrder

\* BankWriter::write: kinds, the BTreeSet of the kinds present, as it iterates.
RECURSIVE KindsIn(_, _)
KindsIn(order, its) ==
  IF order = <<>> THEN <<>>
  ELSE (IF HasKind(its, Head(order)) THEN <<Head(order)>> ELSE <<>>) \o KindsIn(Tail(order), its)

\* The kinds present in the order the items of each were first added.
RECURSIVE FirstAdded(_, _)
FirstAdded(its, seen) ==
  IF its = <<>> THEN seen
  ELSE FirstAdded(Tail(its),
                  IF \E i \in 1..Len(seen) : seen[i] = Head(its).kind THEN seen
                  ELSE Append(seen, Head(its).kind))

kinds_as_added(its) == FirstAdded(its, <<>>)

kinds(its) == KindsIn(LayoutOrder, its)

\* The items of one kind, in insertion order.
RECURSIVE ItemsOfKind(_, _)
ItemsOfKind(its, kind) ==
  IF its = <<>> THEN <<>>
  ELSE (IF Head(its).kind = kind THEN <<Head(its)>> ELSE <<>>) \o ItemsOfKind(Tail(its), kind)

\* The items in the order write() lays them out: by kind, then by insertion.
RECURSIVE Grouped(_, _)
Grouped(ks, its) ==
  IF ks = <<>> THEN <<>> ELSE ItemsOfKind(its, Head(ks)) \o Grouped(Tail(ks), its)

\* BankWriter::write: directory_count
RECURSIVE directory_count(_)
directory_count(ks) ==
  IF ks = <<>> THEN 0
  ELSE (IF directory(Head(ks)).some THEN 1 ELSE 0) + directory_count(Tail(ks))

\* BankWriter::write: location_count
location_count(its) == Len(its) + directory_count(kinds(its))

\* BankWriter::write: location_block_start
location_block_start == Len(FILE_ID) + Len(CORRUPTION_CHECK_BYTES) + Len(FORMAT_VERSION) + U64Bytes

\* The names measured as the paths are stored, not as they are emitted.
RECURSIVE StoredNamesLen(_)
StoredNamesLen(its) ==
  IF its = <<>> THEN 0 ELSE Len(Head(its).path_os) + 1 + StoredNamesLen(Tail(its))

\* BankWriter::write: file_names_len, over the items of one kind.
RECURSIVE FileNamesLen(_)
FileNamesLen(its) ==
  IF its = <<>> THEN 0 ELSE Len(file_name_bytes(Head(its))) + 1 + FileNamesLen(Tail(its))

\* BankWriter::write: file_name_block_length, summed over the kinds.
RECURSIVE NameBlockLen(_, _)
NameBlockLen(ks, its) ==
  IF ks = <<>> THEN 0
  ELSE LET dir_name_len == IF directory(Head(ks)).some THEN Len(directory(Head(ks)).v) + 1 ELSE 0
           file_names_len == FileNamesLen(ItemsOfKind(its, Head(ks)))
       IN  file_names_len + dir_name_len + NameBlockLen(Tail(ks), its)

file_name_block_length(its) == NameBlockLen(kinds(its), its)

\* BankWriter::write: the first value of data_offset.
FirstDataOffset(its) ==
  location_block_start + location_count(its) * BLOCK_SIZE + U64Bytes + file_name_block_length(its)

\* A loop over the items of a kind that leaves data_offset where it was.
RECURSIVE ItemLocationsAt(_, _)
ItemLocationsAt(its, acc) ==
  IF its = <<>> THEN acc
  ELSE ItemLocationsAt(Tail(its),
         [locs |-> acc.locs \o U64(Len(acc.names)) \o U64(acc.off) \o U64(Len(Head(its).contents)),
          names |-> acc.names \o file_name_bytes(Head(its)) \o <<0>>,
          off |-> acc.off])

\* BankWriter::write: the location and the name written for each item of a kind.
\* acc: locs, the location bytes so far; names, file_name_block; off, data_offset.
RECURSIVE ItemLocations(_, _)
ItemLocations(its, acc) ==
  IF its = <<>> THEN acc
  ELSE ItemLocations(Tail(its),
         [locs |-> acc.locs \o U64(Len(acc.names)) \o U64(acc.off) \o U64(Len(Head(its).contents)),
          names |-> acc.names \o file_name_bytes(Head(its)) \o <<0>>,
          off |-> acc.off + Len(Head(its).contents)])

\* A loop over the kinds that writes no directory entry.
SkipDirectory(kind, acc) == acc

\* BankWriter::write: the directory entry that precedes the items of a kind.
DirectoryLocation(kind, acc) ==
  IF directory(kind).some
  THEN [locs |-> acc.locs \o U64(Len(acc.names)) \o U64(0) \o U64(0),
        names |-> acc.names \o directory(kind).v \o <<0>>,
        off |-> acc.off]
  ELSE acc

\* BankWriter::write: the loop over the kinds that writes the locations.
RECURSIVE Locations(_, _, _)
Locations(ks, its, acc) ==
  IF ks = <<>> THEN acc
  ELSE Locations(Tail(ks), its,
         ItemLocations(ItemsOfKind(its, Head(ks)), DirectoryLocation(Head(ks), acc)))

\* BankWriter::write: the contents of every item, by kind.
RECURSIVE Payloads(_)
Payloads(its) == IF its = <<>> THEN <<>> ELSE Head(its).contents \o Payloads(Tail(its))

\* BankWriter::write: every byte handed to the inner Write, in order: the
\* header, the location table, the name block and the contents.
Laid(its, table) ==
  FILE_ID \o CORRUPTION_CHECK_BYTES \o FORMAT_VERSION
  \o U64(location_count(its))
  \o table.locs
  \o U64(file_name_block_length(its))
  \o table.names
  \o Payloads(Grouped(kinds(its), its))

\* BankWriter::write: what is written for an item list that already holds its
\* metadata.
Container(its) ==
  Laid(its, Locations(kinds(its), its,
                      [locs |-> <<>>, names |-> <<>>, off |-> FirstDataOffset(its)]))

----------------------------------------------------------------------------
(* lib.rs: Location; read.rs: Item                                         *)

\* a + b on u64 as the build computes it: panic tells that the sum overflowed
\* in a build that checks for it, v is the sum modulo 2^64.
Plus(a, b, chk) == [v |-> U64Add(a, b).sum, panic |-> U64Add(a, b).overflow /\ chk]

\* Location::data_end
data_end(location, chk) == Plus(location.data_offset, location.data_size, chk)

\* read::Item::is_directory
is_directory(item) == item.location.data_size = U64Zero

\* A reader that takes every entry for a file.
is_entry(item) == TRUE

\* read::Item::is_file
is_file(item) == item.location.data_size # U64Zero

\* read::Item::file_name_lossy
file_name_lossy(item) == ToStringLossy(item.path_bytes)

\* A background test on the whole file name, extension included.
is_background_name(item) ==
  /\ is_file(item)
  /\ EqIgnoreAsciiCase(UnwrapOrDefault(PathFileName(file_name_lossy(item))), BACKGROUND_FILE_STEM)

\* read::Item::is_background_file
is_background_file(item) ==
  /\ is_file(item)
  /\ EqIgnoreAsciiCase(UnwrapOrDefault(PathFileStem(file_name_lossy(item))), BACKGROUND_FILE_STEM)

\* read::Item::is_metadata_file
is_metadata_file(item) ==
  /\ is_file(item)
  /\ EqIgnoreAsciiCase(item.path_bytes, FILE_NAME)

----------------------------------------------------------------------------
(* read.rs: BankReader::new over a Cursor.  Offsets into the source are    *)
(* counted from 0; b[p + 1] is the byte at offset p.                       *)

\* read_exact of n bytes at offset p: whether they are all there.
CanRead(b, p, n) == p + n <= Len(b)

BytesAt(b, p, n) == SubSeq(b, p + 1, p + n)

\* The errors of BankReader::new: the text of the message and the bytes the
\* message names.  NoError stands for no error.
NoError == [text |-> "", arg |-> <<>>]

\* What read_exact and read_u64 give at the end of the source.
UnexpectedEof == [text |-> "failed to fill whole buffer", arg |-> <<>>]

NotABank == [text |-> "Not a Kilohearts bank", arg |-> <<>>]

\* A hexadecimal digit, in lower case.
HexDigit(n) == IF n < 10 THEN 48 + n ELSE 87 + n

\* <[u8]>::escape_ascii of one byte.
EscapeByte(c) ==
  CASE c = 9 -> <<Backslash, 116>>
    [] c = 10 -> <<Backslash, 110>>
    [] c = 13 -> <<Backslash, 114>>
    [] c \in {39, Quote, Backslash} -> <<Backslash, c>>
    [] c >= 32 /\ c <= 126 /\ c \notin {39, Quote, Backslash} -> <<c>>
    [] OTHER -> <<Backslash, 120, HexDigit(c \div 16), HexDigit(c % 16)>>

\* <[u8]>::escape_ascii
RECURSIVE escape_ascii(_)
escape_ascii(bytes) ==
  IF bytes = <<>> THEN <<>> ELSE EscapeByte(Head(bytes)) \o escape_ascii(Tail(bytes))

UnexpectedCheckBytes(check_bytes) ==
  [text |-> "Unexpected check bytes ", arg |-> escape_ascii(check_bytes)]

UnexpectedFormatVersion(format_version) ==
  [text |-> "Unexpected format version ", arg |-> escape_ascii(format_version)]

\* The message of the zero-length name read, a literal with its braces.
ZeroLengthRead ==
  [text |-> "Zero length read of file name at position {file_name_pos}", arg |-> <<>>]

ReadPastNames == [text |-> "Read past the end of the file name block", arg |-> <<>>]

\* The message of the overlap check, without the names of the two items.
Overlaps == [text |-> "Bank item overlaps item", arg |-> <<>>]

\* A BankReader::new that takes any header.
NoHeaderCheck(b) == NoError

\* The header checks, in the order the code makes them.
HeaderError(b) ==
  IF ~CanRead(b, 0, 4) THEN UnexpectedEof
  ELSE IF BytesAt(b, 0, 4) # FILE_ID THEN NotABank
  ELSE IF ~CanRead(b, 4, 4) THEN UnexpectedEof
  ELSE IF BytesAt(b, 4, 4) # CORRUPTION_CHECK_BYTES THEN UnexpectedCheckBytes(BytesAt(b, 4, 4))
  ELSE IF ~CanRead(b, 8, 8) THEN UnexpectedEof
  ELSE IF BytesAt(b, 8, 8) # FORMAT_VERSION THEN UnexpectedFormatVersion(BytesAt(b, 8, 8))
  ELSE NoError

\* The location table: count records of three u64 each, read one after another.
RECURSIVE ReadLocations(_, _, _)
ReadLocations(b, p, n) ==
  IF n = 0 THEN <<>>
  ELSE << [file_name_offset |-> BytesAt(b, p, 8),
           data_offset |-> BytesAt(b, p + 8, 8),
           data_size |-> BytesAt(b, p + 16, 8)] >> \o ReadLocations(b, p + BLOCK_SIZE, n - 1)

\* The bytes from offset p up to and including position k, the first zero byte,
\* or up to the end of the source when k is 0.
UpTo(b, p, k) == IF k = 0 THEN Drop(b, p + 1) ELSE SubSeq(b, p + 1, k)

\* BufRead::read_until(0) at offset p: the bytes up to and including the first
\* zero byte, or up to the end of the source.
ReadUntilZero(b, p) == IF p >= Len(b) THEN <<>> ELSE UpTo(b, p, IndexFrom(b, 0, p + 1))

\* The bounds check of a name: TRUE when the read ended past the name block.
PastNameBlock(name_end, block_end) == U64Less(block_end, name_end)

\* The names: one item per location, in table order.  The result is the items
\* read and the position the stream is left at, or the error that ended it.
RECURSIVE ReadNames(_, _, _, _, _, _)

\* Where seek(Start(file_name_pos)) puts the stream: an offset past the end of
\* the source reads as the end.
SeekTo(b, file_name_pos) == IF Small(file_name_pos) THEN ToNat(file_name_pos) ELSE Len(b)

\* The name without the zero byte that ended the read.
NameOf(bytes) ==
  IF bytes # <<>> /\ bytes[Len(bytes)] = 0 THEN SubSeq(bytes, 1, Len(bytes) - 1) ELSE bytes

\* One turn of the loop once read_until has returned bytes from offset p: the
\* end of stream test, the bounds test and the push.
NameRead(b, locs, start, length, chk, acc, file_name_pos, p, bytes, block_end) ==
  IF Len(bytes) = 0
  THEN [status |-> "err", items |-> <<>>, pos |-> file_name_pos, error |-> ZeroLengthRead]
  ELSE IF block_end.panic
  THEN [status |-> "panic", items |-> <<>>, pos |-> U64(p + Len(bytes)), error |-> NoError]
  ELSE IF PastNameBlock(U64(p + Len(bytes)), block_end.v)
  THEN [status |-> "err", items |-> <<>>, pos |-> U64(p + Len(bytes)), error |-> ReadPastNames]
  ELSE ReadNames(b, Tail(locs), start, length, chk,
         [status |-> "open",
          items |-> Append(acc.items, [path_bytes |-> NameOf(bytes), location |-> Head(locs)]),
          pos |-> U64(p + Len(bytes)), error |-> NoError])

\* One turn of the loop once the stream is at offset p.
NameAt(b, locs, start, length, chk, acc, file_name_pos, p) ==
  NameRead(b, locs, start, length, chk, acc, file_name_pos, p,
           ReadUntilZero(b, p), Plus(U64(start), length, chk))

\* One turn of the loop once file_name_pos is computed.
NameSeek(b, locs, start, length, chk, acc, file_name_pos) ==
  IF file_name_pos.panic
  THEN [status |-> "panic", items |-> <<>>, pos |-> acc.pos, error |-> NoError]
  ELSE NameAt(b, locs, start, length, chk, acc, file_name_pos.v, SeekTo(b, file_name_pos.v))

ReadNames(b, locs, start, length, chk, acc) ==
  IF locs = <<>> THEN acc
  ELSE NameSeek(b, locs, start, length, chk, acc,
                Plus(Head(locs).file_name_offset, U64(start), chk))

\* The file items of the catalog, in catalog order.
RECURSIVE FileItems(_)
FileItems(its) ==
  IF its = <<>> THEN <<>>
  ELSE (IF is_file(Head(its)) THEN <<Head(its)>> ELSE <<>>) \o FileItems(Tail(its))

\* sort_by_key(data_offset), a stable sort: x goes after every element whose
\* offset is not greater than its own.
RECURSIVE InsertByOffset(_, _)
InsertByOffset(sorted, x) ==
  IF sorted = <<>> THEN <<x>>
  ELSE IF U64Less(x.location.data_offset, Head(sorted).location.data_offset)
       THEN <<x>> \o sorted
       ELSE <<Head(sorted)>> \o InsertByOffset(Tail(sorted), x)

RECURSIVE SortByOffset(_, _)
SortByOffset(s, acc) ==
  IF s = <<>> THEN acc ELSE SortByOffset(Tail(s), InsertByOffset(acc, Head(s)))

\* An overlap check that lets every catalog through.
NoWindows(sorted, chk) == "ok"

\* The test made on a window of two file items adjacent in offset order.
WindowOverlaps(end0, offset1) == U64Less(offset1, end0)

\* The test on the window that starts the sorted file items, given the end of
\* its first item.
RECURSIVE CheckWindows(_, _)
CheckWindow(sorted, chk, end0) ==
  IF end0.panic THEN "panic"
  ELSE IF WindowOverlaps(end0.v, sorted[2].location.data_offset) THEN "err"
  ELSE CheckWindows(Tail(sorted), chk)

\* The overlap check over the windows of the sorted file items: "ok", or "err"
\* at the first overlapping window, or "panic" when data_end overflows first.
CheckWindows(sorted, chk) ==
  IF Len(sorted) < 2 THEN "ok"
  ELSE CheckWindow(sorted, chk, data_end(sorted[1].location, chk))

\* What BankReader::new returns on an error before the catalog is read.
Failure == [status |-> "err", items |-> <<>>, pos |-> U64Zero, error |-> UnexpectedEof]

\* BankReader::new: the outcome, given the catalog and the verdict of the
\* overlap check.
Checked(named, overlap) ==
  IF overlap = "ok" THEN named
  ELSE [status |-> overlap, items |-> <<>>, pos |-> named.pos,
        error |-> IF overlap = "err" THEN Overlaps ELSE NoError]

\* BankReader::new: the overlap check on the files of the catalog.
Overlap(named, chk) ==
  IF named.status # "open" THEN named
  ELSE Checked(named, CheckWindows(SortByOffset(FileItems(named.items), <<>>), chk))

\* BankReader::new: the location table of n entries, the name block that
\* follows it at table_end, and the overlap check.
Catalog(b, chk, n, table_end) ==
  IF ~CanRead(b, table_end, 8) THEN Failure
  ELSE Overlap(ReadNames(b, ReadLocations(b, location_block_start, n), table_end + 8,
                         BytesAt(b, table_end, 8), chk,
                         [status |-> "open", items |-> <<>>, pos |-> U64(table_end + 8),
                          error |-> NoError]),
               chk)

\* BankReader::new: the part after the header, given location_count.
Counted(b, chk, count) ==
  IF ~Small(count) \/ ToNat(count) > Len(b) THEN Failure
  ELSE Catalog(b, chk, ToNat(count), location_block_start + ToNat(count) * BLOCK_SIZE)

\* BankReader::new
BankReaderNew(b, chk) ==
  IF HeaderError(b) # NoError THEN [Failure EXCEPT !.error = HeaderError(b)]
  ELSE IF ~CanRead(b, 16, 8) THEN Failure
  ELSE Counted(b, chk, BytesAt(b, 16, 8))

----------------------------------------------------------------------------
(* read.rs: the operations of an open reader                               *)

\* vec![0; data_size]: a buffer of 2^63 bytes or more is a capacity overflow.
TooBigToAllocate(size) == size[U64Bytes] >= 128

\* Whether the bytes [offset, offset + size) all lie in the source.
InSource(b, offset, size) ==
  Small(offset) /\ Small(size) /\ ToNat(offset) <= Len(b) /\ ToNat(size) <= Len(b) - ToNat(offset)

\* Read::read_exact of size bytes at the stream position at: the outcome, the
\* bytes and the position after it.  When the source ends too early the
\* position is left where the read began or at the end of the source (eof).
ReadExact(b, at, size, eof) ==
  IF size = U64Zero THEN [status |-> "ok", bytes |-> <<>>, pos |-> at]
  ELSE IF InSource(b, at, size)
       THEN [status |-> "ok", bytes |-> BytesAt(b, ToNat(at), ToNat(size)),
             pos |-> U64(ToNat(at) + ToNat(size))]
  ELSE [status |-> "err", bytes |-> <<>>,
        pos |-> IF eof /\ U64Less(at, U64(Len(b))) THEN U64(Len(b)) ELSE at]

\* BankReader::read_contents: where the read starts.
ReadStart(item, at) == item.location.data_offset

\* BankReader::read_contents.  alloc: whether a buffer of 2^31 bytes or more
\* can be had; without it the process aborts.
read_contents(b, item, at, alloc, eof) ==
  IF TooBigToAllocate(item.location.data_size)
  THEN [status |-> "panic", bytes |-> <<>>, pos |-> at]
  ELSE IF ~Small(item.location.data_size) /\ ~alloc
  THEN [status |-> "abort", bytes |-> <<>>, pos |-> at]
  ELSE ReadExact(b, ReadStart(item, at), item.location.data_size, eof)

\* BankReader::copy: the bytes it hands to std::fs::write, read at the current
\* stream position.
copy(b, item, at, alloc, eof) ==
  IF TooBigToAllocate(item.location.data_size)
  THEN [status |-> "panic", bytes |-> <<>>, pos |-> at]
  ELSE IF ~Small(item.location.data_size) /\ ~alloc
  THEN [status |-> "abort", bytes |-> <<>>, pos |-> at]
  ELSE ReadExact(b, at, item.location.data_size, eof)

\* BankReader::read_metadata: the record, given what parse_metadata made of
\* the contents.
Parsed(data, parsed) ==
  IF parsed.ok
  THEN [status |-> "ok", bytes |-> data.bytes, pos |-> data.pos, meta |-> parsed.v]
  ELSE [status |-> "err", bytes |-> <<>>, pos |-> data.pos, meta |-> DefaultMetadata]

\* BankReader::read_metadata: the outcome, given what read_contents returned.
MetadataFrom(data) ==
  IF data.status # "ok"
  THEN [status |-> data.status, bytes |-> <<>>, pos |-> data.pos, meta |-> DefaultMetadata]
  ELSE Parsed(data, parse_metadata(data.bytes))

\* A read_metadata that reads whatever item it is given.
read_any(b, item, at, alloc, eof) == MetadataFrom(read_contents(b, item, at, alloc, eof))

\* BankReader::read_metadata
read_metadata(b, item, at, alloc, eof) ==
  IF ~is_metadata_file(item)
  THEN [status |-> "err", bytes |-> <<>>, pos |-> at, meta |-> DefaultMetadata]
  ELSE MetadataFrom(read_contents(b, item, at, alloc, eof))

----------------------------------------------------------------------------
(* Bounds and inputs                                                       *)

\* Most items added before write().
MaxItems == 2

\* Most write() calls that fail on the sink.
MaxFailedWrites == 1

\* background.png
BackgroundPng == BACKGROUND_FILE_STEM \o <<Dot, 112, 110, 103>>

\* What add is called with: the background image and a sample whose name is
\* not UTF-8, each with contents that are empty or not.
Named == { [kind |-> "Background", file_name |-> BackgroundPng],
           [kind |-> "Sample", file_name |-> <<255>>] }

Contents == { <<>>, <<7>>, <<8, 9>> }

\* What std::fs::read gives add_file: an error, or the bytes of the file.
ReadError == [ok |-> FALSE, bytes |-> <<>>]
Files == { ReadError, [ok |-> TRUE, bytes |-> <<123, 125>>] }

\* A record for add_metadata with an id, a version, a hash and an extra member.
FullMetadata ==
  [version |-> Some(12), id |-> <<73, 100>>, name |-> <<110>>, author |-> <<97>>,
   description |-> <<100, 34>>, hash |-> Some(<<97, 98>>),
   extra |-> << [k |-> <<102, 111, 111>>, v |-> JStr(<<98, 97, 114>>)] >>]

\* How the sink takes a write(): -1 accepts everything, -2 accepts the bytes and
\* fails the flush, n >= 0 fails after n bytes.
SinkOk == -1
SinkFlushFails == -2
SinkBehaviours == { SinkOk, SinkFlushFails, 0, 30 }

NoOut == [op |-> "none", idx |-> 0, status |-> "none", bytes |-> <<>>, meta |-> DefaultMetadata]
NoQuery == [op |-> "none", path |-> <<>>, kind |-> "None", exts |-> <<>>, dir |-> None,
            ext |-> <<>>, has |-> FALSE]

\* The metadata options of the kibank command line, none of them given.
NoOptions ==
  [author |-> None, name |-> None, description |-> None, id |-> None, version |-> None,
   hash |-> None]

\* No create run.  pc is where the run stands; collected the files taken from
\* the command line, in the order they were met and without the repeated
\* ones; found the same files in the order the HashSet iterates them; cli the
\* metadata options; metadata the record handed to add_metadata, if any; next
\* the place in found the loop over the rest of the items turns to next.
NoCreate ==
  [pc |-> "idle", collected |-> <<>>, found |-> <<>>, cli |-> NoOptions, metadata |-> None,
   next |-> 0]

\* No extract run: sep is the host's MAIN_SEPARATOR, next the catalog index of
\* the item the loop turns to next, platform the platform_path of each item
\* the loop has taken, made what the run created.
NoExtract == [status |-> "idle", sep |-> PATH_SEPARATOR, next |-> 0, platform |-> <<>>,
              made |-> <<>>]

----------------------------------------------------------------------------
(* The writer's operations                                                 *)

\* BankWriter::add
Add(kind, file_name, contents) ==
  /\ written \/ Len(items) < MaxItems
  /\ call' = "add"
  /\ IF AddRefused(written)
     THEN result' = "Err" /\ items' = items
     ELSE result' = "Ok" /\ items' = add(items, kind, file_name, contents)
  /\ UNCHANGED <<written, sink, failed, src, checks, rd, rdError, rdItems, pos, out, q, ex, cr>>

\* BankWriter::add_file
AddFile(kind, file_name, file) ==
  /\ written \/ Len(items) < MaxItems
  /\ call' = "add_file"
  /\ IF ~file.ok \/ AddRefused(written)
     THEN result' = "Err" /\ items' = items
     ELSE result' = "Ok" /\ items' = add(items, kind, file_name, file.bytes)
  /\ UNCHANGED <<written, sink, failed, src, checks, rd, rdError, rdItems, pos, out, q, ex, cr>>

\* BankWriter::add_metadata
AddMetadata(metadata) ==
  /\ written \/ Len(items) < MaxItems
  /\ call' = "add_metadata"
  /\ IF AddRefused(written)
     THEN result' = "Err" /\ items' = items
     ELSE result' = "Ok" /\ items' = add(items, "Metadata", FILE_NAME, MetadataContents(metadata))
  /\ UNCHANGED <<written, sink, failed, src, checks, rd, rdError, rdItems, pos, out, q, ex, cr>>

\* BankWriter::write: the check that refuses a second commit.
WriteRefused(w) == w

\* A write() that seals the writer whatever the sink did.
SealedAfter(behaviour) == TRUE

\* BankWriter::write: the flag after a call that the sink took as behaviour.
WrittenAfter(behaviour) == behaviour = SinkOk

\* BankWriter::write
Write(behaviour) ==
  /\ call' = "write"
  /\ IF WriteRefused(written)
     THEN /\ behaviour = SinkOk
          /\ result' = "Err"
          /\ UNCHANGED <<items, written, sink, failed>>
     ELSE \E all \in {WithDefaultMetadata(items)} : \E bytes \in {Container(all)} :
              /\ behaviour >= 0 => behaviour < Len(bytes)
              /\ behaviour # SinkOk => failed < MaxFailedWrites
              /\ items' = all
              /\ sink' = sink \o (IF behaviour >= 0 THEN Take(bytes, behaviour) ELSE bytes)
              /\ written' = WrittenAfter(behaviour)
              /\ result' = IF behaviour = SinkOk THEN "Ok" ELSE "Err"
              /\ failed' = IF behaviour = SinkOk THEN failed ELSE failed + 1
  /\ UNCHANGED <<src, checks, rd, rdError, rdItems, pos, out, q, ex, cr>>

----------------------------------------------------------------------------
(* The reader's operations                                                 *)

\* BankReader::new on the bytes b, in a build with (chk) or without overflow
\* checks.
OpenOn(b, chk) ==
  /\ rd = "none"
  /\ \E r \in {BankReaderNew(b, chk)} :
       /\ src' = b
       /\ checks' = chk
       /\ rd' = r.status
       /\ rdError' = r.error
       /\ rdItems' = r.items
       /\ pos' = r.pos
       /\ out' = NoOut

\* BankReader::new on what the writer has put into its sink.
Open(chk) ==
  /\ written
  /\ OpenOn(sink, chk)
  /\ UNCHANGED <<items, written, sink, call, result, failed, q, ex, cr>>

\* The reader is open and no operation has panicked or aborted the process.
Alive == rd = "open" /\ out.status \notin {"panic", "abort"}

\* Whether the buffer can be had is a question only for 2^31 bytes or more.
AllocChoices(item) == IF Small(item.location.data_size) THEN {TRUE} ELSE BOOLEAN

\* Where a failed read leaves the stream is a question only for a read that
\* starts inside the source.
EofChoices(at) == IF U64Less(at, U64(Len(src))) THEN BOOLEAN ELSE {FALSE}

\* BankReader::read_contents
ReadContents(i, alloc, eof) ==
  /\ Alive
  /\ \E r \in {read_contents(src, rdItems[i], pos, alloc, eof)} :
     /\ out' = [op |-> "read_contents", idx |-> i, status |-> r.status, bytes |-> r.bytes,
                meta |-> DefaultMetadata]
     /\ pos' = r.pos
  /\ UNCHANGED <<items, written, sink, call, result, failed, src, checks, rd, rdError, rdItems, q, ex, cr>>

\* BankReader::read_metadata
ReadMetadata(i, alloc, eof) ==
  /\ Alive
  /\ \E r \in {read_metadata(src, rdItems[i], pos, alloc, eof)} :
     /\ out' = [op |-> "read_metadata", idx |-> i, status |-> r.status, bytes |-> r.bytes,
                meta |-> r.meta]
     /\ pos' = r.pos
  /\ UNCHANGED <<items, written, sink, call, result, failed, src, checks, rd, rdError, rdItems, q, ex, cr>>

\* BankReader::copy; fsOk tells whether std::fs::write took the bytes.
Copy(i, alloc, eof, fsOk) ==
  /\ Alive
  /\ \E r \in {copy(src, rdItems[i], pos, alloc, eof)} :
     /\ out' = [op |-> "copy", idx |-> i,
                status |-> IF r.status = "ok" /\ ~fsOk THEN "err" ELSE r.status,
                bytes |-> IF fsOk THEN r.bytes ELSE <<>>, meta |-> DefaultMetadata]
     /\ pos' = r.pos
  /\ UNCHANGED <<items, written, sink, call, result, failed, src, checks, rd, rdError, rdItems, q, ex, cr>>

----------------------------------------------------------------------------
(* Spec: a writer over a sink that takes every byte (a Vec, as in the      *)
(* tests) is filled and committed, and a reader opens what it wrote.  The  *)
(* writer is left alone once the reader is open.                           *)

Init ==
  /\ items = <<>>
  /\ written = FALSE
  /\ sink = <<>>
  /\ call = "new"
  /\ result = "Ok"
  /\ failed = 0
  /\ src = <<>>
  /\ checks = FALSE
  /\ rd = "none"
  /\ rdError = NoError
  /\ rdItems = <<>>
  /\ pos = U64Zero
  /\ out = NoOut
  /\ q = NoQuery
  /\ ex = NoExtract
  /\ cr = NoCreate

Next ==
  \/ /\ ~written
     /\ \E named \in Named, contents \in Contents :
          Add(named.kind, named.file_name, contents)
  \/ ~written /\ AddMetadata(FullMetadata)
  \/ ~written /\ Write(SinkOk)
  \/ \E chk \in BOOLEAN : Open(chk)
  \/ \E i \in 1..Len(rdItems) :
       \E alloc \in AllocChoices(rdItems[i]), eof \in EofChoices(rdItems[i].location.data_offset) :
         ReadContents(i, alloc, eof)
  \/ \E i \in 1..Len(rdItems) :
       \E alloc \in AllocChoices(rdItems[i]), eof \in EofChoices(rdItems[i].location.data_offset) :
         ReadMetadata(i, alloc, eof)

Spec == Init /\ [][Next]_vars

----------------------------------------------------------------------------
(* SpecSeal: the life of a writer over a sink that can fail (a File): every *)
(* operation may be called at any time, before and after the commit.       *)

NextSeal ==
  \/ \E kind \in {"Background", "Sample"}, contents \in {<<>>, <<7>>} :
       Add(kind, BackgroundPng, contents)
  \/ \E file \in Files : AddFile("Metadata", FILE_NAME, file)
  \/ \E metadata \in {DefaultMetadata, FullMetadata} : AddMetadata(metadata)
  \/ \E behaviour \in SinkBehaviours : Write(behaviour)

SpecSeal == Init /\ [][NextSeal]_vars

----------------------------------------------------------------------------
(* SpecKind: ItemKind asked about paths, kinds and extensions.             *)

\* The paths put to ItemKind::from: a directory or none, a stem, an extension
\* or none.
KindDirs == { <<>>, <<100, PATH_SEPARATOR>> }
KindStems ==
  { <<>>, BACKGROUND_FILE_STEM, <<66>> \o Tail(BACKGROUND_FILE_STEM),
    <<105, 110, 100, 101, 120>>, <<120>> }
KindDotExts ==
  { <<>>, <<Dot, 106, 115, 111, 110>>, <<Dot, 74, 83, 79, 78>>, <<Dot, 112, 110, 103>>,
    <<Dot, 119, 97, 118>>, <<Dot, 87, 65, 86>>, <<Dot, 116, 120, 116>>,
    <<Dot, 107, 115, 116, 114>>, <<Dot>> \o extensions("MultipassPreset")[1] }
KindPaths == { d \o st \o e : d \in KindDirs, st \in KindStems, e \in KindDotExts }

\* The extensions put to ItemKind::has_extension.
KindExts == { <<>>, <<112, 110, 103>>, <<80, 78, 71>>, <<119, 97, 118>>, <<255>> }

\* ItemKind::from(path)
Classify(path) ==
  /\ q' = [NoQuery EXCEPT !.op = "from", !.path = path, !.kind = from(path)]
  /\ UNCHANGED <<writerVars, readerVars, ex, cr>>

\* kind.extensions() and kind.directory()
Describe(kind) ==
  /\ q' = [NoQuery EXCEPT !.op = "kind", !.kind = kind, !.exts = extensions(kind),
                          !.dir = directory(kind)]
  /\ UNCHANGED <<writerVars, readerVars, ex, cr>>

\* kind.has_extension(ext)
HasExtension(kind, ext) ==
  /\ q' = [NoQuery EXCEPT !.op = "has_extension", !.kind = kind, !.ext = ext,
                          !.has = has_extension(kind, ext)]
  /\ UNCHANGED <<writerVars, readerVars, ex, cr>>

NextKind ==
  \/ \E path \in KindPaths : Classify(path)
  \/ \E kind \in Kinds : Describe(kind)
  \/ \E kind \in {"Background", "Sample"}, ext \in KindExts : HasExtension(kind, ext)

SpecKind == Init /\ [][NextKind]_vars

----------------------------------------------------------------------------
(* SpecMeta: metadata records are added, the bank is written and read back. *)

\* Most records added before write().
MaxRecords == 1

\* The records put to add_metadata: with and without an id, an author and a
\* name (among them an author with an upper-case letter outside ASCII, a
\* space and a dot), bare or with every other member set.
MetaIds == { <<>>, <<73, 100>> }
MetaAuthors == { <<>>, <<65, 117, 116, 104, 111, 114>>, <<196, 32, 98, Dot>> }
MetaNames == { <<>>, <<84, 105, 116, 108, 101>>, <<33>> }
MetaInputs ==
  { [base EXCEPT !.id = id, !.author = author, !.name = name] :
      base \in {DefaultMetadata, FullMetadata},
      id \in MetaIds, author \in MetaAuthors, name \in MetaNames }

NextMeta ==
  \/ /\ ~written
     /\ Len(items) < MaxRecords
     /\ \E metadata \in MetaInputs : AddMetadata(metadata)
  \/ ~written /\ Write(SinkOk)
  \/ \E chk \in BOOLEAN : Open(chk)
  \/ \E i \in 1..Len(rdItems) :
       \E alloc \in AllocChoices(rdItems[i]), eof \in EofChoices(rdItems[i].location.data_offset) :
         ReadMetadata(i, alloc, eof)

SpecMeta == Init /\ [][NextMeta]_vars

----------------------------------------------------------------------------
(* SpecCrafted: a reader on containers no writer made.  The header and the *)
(* name block are sound; the location table is any short sequence of the   *)
(* locations below, in a build with or without overflow checks.            *)

\* Most locations in a crafted table.
MaxLocs == 2

\* The name block: "a" at offset 0 and "index.json" at offset 2.
CraftedNames == <<97, 0>> \o FILE_NAME \o <<0>>

\* The bytes after the name block.
CraftedPayload == <<1, 2, 3>>

\* Where the payload starts in a container of n locations.
PayloadStart(n) == location_block_start + n * BLOCK_SIZE + U64Bytes + Len(CraftedNames)

\* 2^32 and 2^63
TwoTo32 == <<0, 0, 0, 0, 1, 0, 0, 0>>
TwoTo63 == <<0, 0, 0, 0, 0, 0, 0, 128>>

CraftedShapes ==
  { "head", "tail", "last", "meta", "dir", "past", "big", "huge", "wrap",
    "all", "end", "astray", "lost", "back" }

\* A location of the table, for a payload that starts at offset D.
CraftedLocation(shape, D) ==
  CASE shape = "head" -> [file_name_offset |-> U64(0), data_offset |-> U64(D), data_size |-> U64(2)]
    [] shape = "tail" -> [file_name_offset |-> U64(0), data_offset |-> U64(D + 1), data_size |-> U64(2)]
    [] shape = "last" -> [file_name_offset |-> U64(0), data_offset |-> U64(D + 2), data_size |-> U64(1)]
    [] shape = "meta" -> [file_name_offset |-> U64(2), data_offset |-> U64(D), data_size |-> U64(3)]
    [] shape = "dir" -> [file_name_offset |-> U64(0), data_offset |-> U64(D + 4), data_size |-> U64(0)]
    [] shape = "past" -> [file_name_offset |-> U64(0), data_offset |-> U64(D + 2), data_size |-> U64(2)]
    [] shape = "big" -> [file_name_offset |-> U64(0), data_offset |-> U64(D), data_size |-> TwoTo32]
    [] shape = "huge" -> [file_name_offset |-> U64(0), data_offset |-> U64(D + 2), data_size |-> TwoTo63]
    [] shape = "wrap" -> [file_name_offset |-> U64(0), data_offset |-> U64(D), data_size |-> U64Neg(D)]
    [] shape = "all" -> [file_name_offset |-> U64(0), data_offset |-> U64(0),
                         data_size |-> U64(D + Len(CraftedPayload))]
    [] shape = "end" -> [file_name_offset |-> U64(Len(CraftedNames) - 1), data_offset |-> U64(D),
                         data_size |-> U64(0)]
    [] shape = "astray" -> [file_name_offset |-> U64(Len(CraftedNames)), data_offset |-> U64(D),
                            data_size |-> U64(0)]
    [] shape = "lost" -> [file_name_offset |-> U64(100), data_offset |-> U64(D), data_size |-> U64(0)]
    [] shape = "back" -> [file_name_offset |-> U64Neg(U64Bytes), data_offset |-> U64(D),
                          data_size |-> U64(0)]

\* The bytes of a location table.
RECURSIVE TableBytes(_)
TableBytes(table) ==
  IF table = <<>> THEN <<>>
  ELSE Head(table).file_name_offset \o Head(table).data_offset \o Head(table).data_size
       \o TableBytes(Tail(table))

\* The container with the given location table.
Crafted(table) ==
  FILE_ID \o CORRUPTION_CHECK_BYTES \o FORMAT_VERSION
  \o U64(Len(table)) \o TableBytes(table)
  \o U64(Len(CraftedNames)) \o CraftedNames \o CraftedPayload

CraftedTables ==
  UNION { { [i \in 1..n |-> CraftedLocation(shapes[i], PayloadStart(n))] :
              shapes \in [1..n -> CraftedShapes] } : n \in 0..MaxLocs }

InitCrafted ==
  /\ items = <<>>
  /\ written = FALSE
  /\ sink = <<>>
  /\ call = "new"
  /\ result = "Ok"
  /\ failed = 0
  /\ src \in { Crafted(table) : table \in CraftedTables }
  /\ checks \in BOOLEAN
  /\ rd = "none"
  /\ rdError = NoError
  /\ rdItems = <<>>
  /\ pos = U64Zero
  /\ out = NoOut
  /\ q = NoQuery
  /\ ex = NoExtract
  /\ cr = NoCreate

\* BankReader::new on the crafted container.
OpenSource ==
  /\ OpenOn(src, checks)
  /\ UNCHANGED <<items, written, sink, call, result, failed, q, ex, cr>>

NextCrafted ==
  \/ OpenSource
  \/ \E i \in 1..Len(rdItems) :
       \E alloc \in AllocChoices(rdItems[i]), eof \in EofChoices(rdItems[i].location.data_offset) :
         ReadContents(i, alloc, eof)
  \/ \E i \in 1..Len(rdItems) :
       \E alloc \in AllocChoices(rdItems[i]), eof \in EofChoices(rdItems[i].location.data_offset) :
         ReadMetadata(i, alloc, eof)
  \/ \E i \in 1..Len(rdItems) :
       \E alloc \in AllocChoices(rdItems[i]), eof \in EofChoices(pos), fsOk \in BOOLEAN :
         Copy(i, alloc, eof, fsOk)

SpecCrafted == InitCrafted /\ [][NextCrafted]_vars

----------------------------------------------------------------------------
(* Properties.  The catalog a reader is expected to show for an item list: *)
(* kind by kind in ItemKind order, the directory entry of the kind if it   *)
(* has a directory, then the items of the kind in insertion order.         *)

EntryOf(item) == [marker |-> FALSE, path |-> item.path_os, contents |-> item.contents]

EntriesOf(its) == [i \in 1..Len(its) |-> EntryOf(its[i])]

DirectoryEntry(kind) ==
  IF directory(kind).some
  THEN << [marker |-> TRUE, path |-> directory(kind).v, contents |-> <<>>] >>
  ELSE <<>>

RECURSIVE ExpectedOf(_, _)
ExpectedOf(order, its) ==
  IF order = <<>> THEN <<>>
  ELSE (IF HasKind(its, Head(order))
        THEN DirectoryEntry(Head(order)) \o EntriesOf(ItemsOfKind(its, Head(order)))
        ELSE <<>>)
       \o ExpectedOf(Tail(order), its)

ExpectedCatalog == ExpectedOf(KindOrder, items)

\* The reader is open on what the writer wrote.
Reopened == written /\ rd = "open"

\* C1: after any adds and a successful write(), the reader opens the bytes; its
\* catalog, the per-kind directory entries aside, lists the added items by
\* kind and insertion order, each under the path the writer stored, and
\* read_contents of each gives the bytes that were added.
C1_RoundTrip ==
  /\ written /\ rd # "none" => rd = "open"
  /\ Reopened =>
       /\ Len(rdItems) = Len(ExpectedCatalog)
       /\ \A i \in 1..Len(rdItems) :
            ~ExpectedCatalog[i].marker => rdItems[i].path_bytes = ExpectedCatalog[i].path
       /\ out.op = "read_contents" /\ ~ExpectedCatalog[out.idx].marker =>
            out.status = "ok" /\ out.bytes = ExpectedCatalog[out.idx].contents

\* The sum of two u64 in true arithmetic is at most a third: it does not
\* overflow and its 64-bit value is at most c.
SumLeq(a, b, c) == ~U64Add(a, b).overflow /\ U64Leq(U64Add(a, b).sum, c)

\* The payload ranges [data_offset, data_offset + data_size) of two locations
\* have a byte in common.
RangesOverlap(l1, l2) ==
  /\ l1.data_size # U64Zero
  /\ l2.data_size # U64Zero
  /\ ~SumLeq(l1.data_offset, l1.data_size, l2.data_offset)
  /\ ~SumLeq(l2.data_offset, l2.data_size, l1.data_offset)

\* The location table of the source the reader was given.
SourceTable == ReadLocations(src, location_block_start, ToNat(BytesAt(src, 16, 8)))

\* C2: BankReader::new returns an error for every container in which two
\* locations of nonzero size have overlapping payload ranges; in an open reader
\* the ranges of the file items are pairwise disjoint.
C2_OverlapRejected ==
  /\ rd # "none" /\ (\E i, j \in 1..Len(SourceTable) :
                       i # j /\ RangesOverlap(SourceTable[i], SourceTable[j]))
       => rd = "err"
  /\ rd = "open" =>
       \A i, j \in 1..Len(rdItems) :
         i # j => ~RangesOverlap(rdItems[i].location, rdItems[j].location)

\* C3: the writer becomes written only in a write() that returns Ok; once
\* written it stays written, every add, add_file, add_metadata and write
\* returns Err, and the item list and the bytes in the sink do not change.
C3_Sealed ==
  [][ /\ ~written /\ written' => call' = "write" /\ result' = "Ok"
      /\ written => /\ written'
                    /\ result' = "Err"
                    /\ items' = items
                    /\ sink' = sink ]_vars

\* A rejected call after the commit: the writer is written and the add_metadata
\* just made returned Err.
C3_Witness == written /\ call = "add_metadata" /\ result = "Err" /\ Len(sink) > 0

\* The item list of a writer that was written without any add.
Blank == << [kind |-> "Metadata", contents |-> MetadataContents(DefaultMetadata),
             path_os |-> FILE_NAME] >>

\* C4: write() without a prior add gives a container whose catalog has exactly
\* one entry, a file with path index.json that is the metadata file, and its
\* metadata has empty id, name, author and description and no hash.
C4_BlankBank ==
  written /\ items \in {<<>>, Blank} /\ rd # "none" =>
    /\ rd = "open"
    /\ Len(rdItems) = 1
    /\ rdItems[1].path_bytes = FILE_NAME
    /\ is_file(rdItems[1])
    /\ is_metadata_file(rdItems[1])
    /\ out.op = "read_metadata" =>
         /\ out.status = "ok"
         /\ out.meta.id = <<>>
         /\ out.meta.name = <<>>
         /\ out.meta.author = <<>>
         /\ out.meta.description = <<>>
         /\ out.meta.hash = None

\* The blank bank was reopened and its metadata read.
C4_Witness ==
  Reopened /\ items = Blank /\ out.op = "read_metadata" /\ out.status = "ok"

\* One Background item named background.png was added and no metadata.
OnlyBackground ==
  /\ Len(items) = 2
  /\ items[1].kind = "Background"
  /\ items[1].path_os = BackgroundPng
  /\ items[2] = Blank[1]

\* What C5 says of the reopened bank.
BackgroundAndMetadata ==
  /\ rd = "open"
  /\ Len(rdItems) = 2
  /\ \A i \in 1..Len(rdItems) : ~is_directory(rdItems[i])
  /\ is_background_file(rdItems[1])
  /\ rdItems[1].path_bytes = BackgroundPng
  /\ is_metadata_file(rdItems[2])
  /\ rdItems[2].path_bytes = FILE_NAME

\* C5 as stated: a bank written with exactly one Background item named
\* background.<ext> and no explicit metadata reopens with exactly two entries
\* and no directory entry, the background item first (is_background_file, path
\* equal to the file name given) and the metadata file index.json second.
C5_Background_AsStated ==
  written /\ OnlyBackground /\ rd # "none" => BackgroundAndMetadata

\* C5, amended: the same, for a Background item whose contents are not empty.
C5_Background ==
  written /\ OnlyBackground /\ items[1].contents # <<>> /\ rd # "none" => BackgroundAndMetadata

\* A bank with a nonempty background was reopened.
C5_Witness ==
  Reopened /\ OnlyBackground /\ items[1].contents # <<>> /\ is_background_file(rdItems[1])

\* char::to_lowercase, for the characters below 256.
ToLowercase(c) ==
  IF (c >= 65 /\ c <= 90) \/ (c >= 192 /\ c <= 222 /\ c # 215) THEN c + 32 ELSE c

\* The id C6 describes: what is neither alphanumeric nor a dot removed, the
\* rest in lower case.
RECURSIVE Sanitized(_)
Sanitized(str) ==
  IF str = <<>> THEN <<>>
  ELSE (IF IsAlphanumeric(Head(str)) \/ Head(str) = Dot
        THEN <<ToLowercase(Head(str))>> ELSE <<>>) \o Sanitized(Tail(str))

\* The record C6 says is persisted for a record given to add_metadata.
Persisted(metadata) ==
  [metadata EXCEPT !.id = IF metadata.id = <<>>
                          THEN Join(IdParts(Sanitized(metadata.author), Sanitized(metadata.name)),
                                    <<Dot>>)
                          ELSE metadata.id]

\* C6: add_metadata with an empty id persists as id the nonempty ones of
\* sanitize(author) and sanitize(name) joined by a dot, sanitize removing what
\* is neither alphanumeric nor a dot and lowercasing the rest; a nonempty id is
\* persisted as given; version, name, author, description, hash and the extra
\* members are persisted as given.  Persisted is what parsing the contents of
\* the item that add_metadata appended gives.
C6_PersistedId ==
  [][ \A metadata \in MetaInputs :
        ~written /\ AddMetadata(metadata) =>
          parse_metadata(items'[Len(items')].contents) = [ok |-> TRUE, v |-> Persisted(metadata)]
    ]_vars

\* The kind C7 gives a path.
KindByStem(p) ==
  IF EqIgnoreAsciiCase(UnwrapOrDefault(PathFileName(p)), FILE_NAME) THEN "Metadata"
  ELSE IF EqIgnoreAsciiCase(UnwrapOrDefault(PathFileStem(p)), BACKGROUND_FILE_STEM)
  THEN "Background"
  ELSE IF ~PathExtension(p).some THEN "None"
  ELSE FindKind(KindOrder, PathExtension(p).v)

\* C7: ItemKind::from gives Metadata when the base name of the path is
\* index.json ignoring case; otherwise Background when the stem of the file is
\* background ignoring case, whatever the extension; otherwise the first kind
\* in enumeration order with an extension equal to the path's ignoring case;
\* otherwise None.
C7_KindOfPath == q.op = "from" => q.kind = KindByStem(q.path)

\* C8 as stated: every kind has an extension; Background and Metadata have no
\* directory; the directory of every other kind is the first entry of its
\* extension list.
C8_Directory_AsStated ==
  q.op = "kind" =>
    /\ Len(q.exts) >= 1
    /\ q.kind \in {"Background", "Metadata"} => q.dir = None
    /\ q.kind \notin {"Background", "Metadata"} => q.dir = Some(q.exts[1])

\* C8, amended: every kind has an extension; Background and Metadata have no
\* directory; the directory of Sample is "samples"; the directory of every
\* other kind is the first entry of its extension list.
C8_Directory ==
  q.op = "kind" =>
    /\ Len(q.exts) >= 1
    /\ q.kind \in {"Background", "Metadata"} => q.dir = None
    /\ q.kind = "Sample" => q.dir = Some(SamplesDir)
    /\ q.kind \notin {"Background", "Metadata", "Sample"} => q.dir = Some(q.exts[1])

\* Sample was asked for its directory.
C8_Witness == q.op = "kind" /\ q.kind = "Sample" /\ q.dir = Some(SamplesDir)

\* C9: an item added with empty contents is written with data_size 0 and read
\* back as a directory (is_directory, and none of is_file, is_metadata_file,
\* is_background_file); an item added with contents is read back as a file;
\* every catalog item is exactly one of directory and file.
C9_EmptyIsDirectory ==
  Reopened =>
    /\ Len(rdItems) = Len(ExpectedCatalog)
    /\ \A i \in 1..Len(rdItems) :
         /\ is_directory(rdItems[i]) # is_file(rdItems[i])
         /\ ~ExpectedCatalog[i].marker /\ ExpectedCatalog[i].contents = <<>> =>
              /\ rdItems[i].location.data_size = U64Zero
              /\ is_directory(rdItems[i])
              /\ ~is_file(rdItems[i])
              /\ ~is_metadata_file(rdItems[i])
              /\ ~is_background_file(rdItems[i])
         /\ ~ExpectedCatalog[i].marker /\ ExpectedCatalog[i].contents # <<>> =>
              is_file(rdItems[i]) /\ ~is_directory(rdItems[i])

\* A bank with an empty background and a sample with contents was reopened.
C9_Witness ==
  /\ Reopened
  /\ Len(rdItems) = Len(ExpectedCatalog)
  /\ \E i, j \in 1..Len(rdItems) :
       /\ ~ExpectedCatalog[i].marker
       /\ ExpectedCatalog[i].contents = <<>>
       /\ ExpectedCatalog[i].path = BackgroundPng
       /\ is_directory(rdItems[i])
       /\ ExpectedCatalog[j].contents # <<>>
       /\ items[1].kind = "Sample"
       /\ is_file(rdItems[j])

\* The payload range of a location lies in the source.
WithinSource(location) == SumLeq(location.data_offset, location.data_size, U64(Len(src)))

\* C10: read_contents returns the data_size bytes of the source from
\* data_offset on, wherever earlier operations left the stream, and returns an
\* error when data_offset + data_size is beyond the end of the source.
C10_ReadContents ==
  out.op = "read_contents" =>
    IF WithinSource(rdItems[out.idx].location)
    THEN /\ out.status = "ok"
         /\ out.bytes = BytesAt(src, ToNat(rdItems[out.idx].location.data_offset),
                                ToNat(rdItems[out.idx].location.data_size))
    ELSE out.status = "err"

\* C11: read_metadata returns an error for every item that is not the metadata
\* file (a directory entry, or a path other than index.json ignoring ASCII
\* case), and then neither seeks nor reads: the stream position and the
\* catalog are as before.
C11_NotMetadata ==
  [][ rd = "open" /\ out'.op = "read_metadata" /\ ~is_metadata_file(rdItems[out'.idx]) =>
        /\ out'.status = "err"
        /\ pos' = pos
        /\ rdItems' = rdItems
        /\ rd' = rd ]_vars

\* read_metadata was refused for a file that is not index.json, with the
\* stream somewhere in the payload.
C11_Witness ==
  /\ rd = "open"
  /\ out.op = "read_metadata"
  /\ is_file(rdItems[out.idx])
  /\ ~is_metadata_file(rdItems[out.idx])
  /\ out.status = "err"
  /\ U64Less(U64(PayloadStart(Len(rdItems))), pos)

----------------------------------------------------------------------------
(* SpecCopy: a bank is written, opened, and its file items are copied out  *)
(* in catalog order with nothing else done on the reader, to a destination *)
(* that takes the bytes.                                                   *)

\* What add is called with: the background image, a sample "x" and a sample
\* whose name "a\0b" holds a zero byte.
CopyNamed == { [kind |-> "Background", file_name |-> BackgroundPng],
               [kind |-> "Sample", file_name |-> <<120>>],
               [kind |-> "Sample", file_name |-> <<97, 0, 98>>] }

\* The first file item of the catalog after position after, 0 when there is
\* none.
NextFile(its, after) ==
  IF \E i \in (after + 1)..Len(its) : is_file(its[i])
  THEN CHOOSE i \in (after + 1)..Len(its) :
         is_file(its[i]) /\ \A j \in (after + 1)..(i - 1) : ~is_file(its[j])
  ELSE 0

\* The item copied last, 0 before the first copy.
Copied == IF out.op = "copy" THEN out.idx ELSE 0

NextCopy ==
  \/ /\ ~written
     /\ \E named \in CopyNamed, contents \in Contents :
          Add(named.kind, named.file_name, contents)
  \/ ~written /\ Write(SinkOk)
  \/ \E chk \in BOOLEAN : Open(chk)
  \/ /\ out.status \in {"none", "ok"}
     /\ \E i \in {NextFile(rdItems, Copied)} \ {0} :
          \E alloc \in AllocChoices(rdItems[i]), eof \in EofChoices(pos) :
            Copy(i, alloc, eof, TRUE)

SpecCopy == Init /\ [][NextCopy]_vars

\* The payload a location names in the source.
PayloadOf(item) ==
  BytesAt(src, ToNat(item.location.data_offset), ToNat(item.location.data_size))

\* The stream stands at the payload of the next file item to copy, if any.
AtNextFile ==
  NextFile(rdItems, Copied) # 0 => pos = rdItems[NextFile(rdItems, Copied)].location.data_offset

\* C12: for a container the writer made, copy on each file item in catalog
\* order straight after the open writes that item's payload: the open leaves
\* the stream at the first file item's data_offset and each copy leaves it at
\* the next file item's.
C12_CopyInOrder ==
  Reopened =>
    /\ AtNextFile
    /\ out.op = "copy" => out.status = "ok" /\ out.bytes = PayloadOf(rdItems[out.idx])

----------------------------------------------------------------------------
(* bin/kibank.rs: extract.  The host is known by its MAIN_SEPARATOR: '/'   *)
(* (Unix) or '\' (Windows).  Item names are ASCII here, so that            *)
(* Path::from_raw_bytes takes them on either host.                         *)

WindowsSeparator == 92

Colon == 58

\* The bytes the host takes for separators in a path.
HostSeparators(sep) == IF sep = WindowsSeparator THEN {PATH_SEPARATOR, sep} ELSE {sep}

\* extract: platform_path, the bytes of the item's path mapped one by one.
platform_path(path_bytes, sep) ==
  [i \in 1..Len(path_bytes) |-> IF path_bytes[i] = sep THEN sep ELSE path_bytes[i]]

\* A path with a drive prefix ("C:"), on Windows.
has_prefix(p, sep) ==
  /\ sep = WindowsSeparator
  /\ Len(p) >= 2
  /\ (p[1] >= 65 /\ p[1] <= 90) \/ (p[1] >= 97 /\ p[1] <= 122)
  /\ p[2] = Colon

\* Path::has_root: a separator at the start, after the prefix if there is one.
has_root(p, sep) ==
  IF has_prefix(p, sep)
  THEN Len(p) >= 3 /\ p[3] \in HostSeparators(sep)
  ELSE p # <<>> /\ p[1] \in HostSeparators(sep)

\* Path::is_absolute: a root on Unix; a prefix and a root on Windows.
is_absolute(p, sep) ==
  IF sep = WindowsSeparator THEN has_prefix(p, sep) /\ has_root(p, sep) ELSE has_root(p, sep)

\* Path::join: a path that is absolute or has a prefix replaces the base, one
\* with a root and no prefix keeps the prefix of the base, any other is
\* appended to it.
join(base, p, sep) ==
  IF is_absolute(p, sep) \/ has_prefix(p, sep) THEN p
  ELSE IF has_root(p, sep) THEN Take(base, 2) \o p
  ELSE base \o <<sep>> \o p

\* extract: dest_dir, the directory named on the command line: "/d", "C:\d".
dest_dir(sep) ==
  IF sep = WindowsSeparator THEN <<67, Colon, sep, 100>> ELSE <<sep, 100>>

\* extract: what the run is after the loop has dealt with i of the n items.
ExtractAfter(i, n) == IF i >= n THEN "ok" ELSE "running"

\* extract: the bank is opened; sep is the host's MAIN_SEPARATOR.
ExtractOpen(sep, chk) ==
  /\ written
  /\ ex.status = "idle"
  /\ OpenOn(sink, chk)
  /\ ex' = [NoExtract EXCEPT !.sep = sep, !.next = 1,
                             !.status = IF rd' = "open" THEN ExtractAfter(0, Len(rdItems')) ELSE rd']
  /\ UNCHANGED <<items, written, sink, call, result, failed, q, cr>>

\* extract: the loop's turn for a directory entry, create_dir_all working or
\* not.
ExtractDirectory(i, platform, dest_path, fs) ==
  /\ fs \in {"ok", "mkdir_fails"}
  /\ ex' = [ex EXCEPT !.next = i + 1,
                      !.platform = Append(ex.platform, platform),
                      !.status = IF fs = "ok" THEN ExtractAfter(i, Len(rdItems)) ELSE "err",
                      !.made = IF fs = "ok"
                               THEN Append(ex.made, [idx |-> i, path |-> dest_path, dir |-> TRUE,
                                                    bytes |-> <<>>])
                               ELSE ex.made]
  /\ UNCHANGED <<pos, out>>

\* extract: the loop's turn for a file, once the parent directory is there: r
\* is what BankReader::copy made of it.
ExtractFile(i, platform, dest_path, fs, r) ==
  /\ out' = [op |-> "copy", idx |-> i,
             status |-> IF r.status = "ok" /\ fs # "ok" THEN "err" ELSE r.status,
             bytes |-> IF fs = "ok" THEN r.bytes ELSE <<>>, meta |-> DefaultMetadata]
  /\ pos' = r.pos
  /\ ex' = [ex EXCEPT !.next = i + 1,
                      !.platform = Append(ex.platform, platform),
                      !.status = IF out'.status = "ok" THEN ExtractAfter(i, Len(rdItems)) ELSE out'.status,
                      !.made = IF out'.status = "ok"
                               THEN Append(ex.made, [idx |-> i, path |-> dest_path, dir |-> FALSE,
                                                    bytes |-> r.bytes])
                               ELSE ex.made]

\* extract: the loop's turn for a path that is not absolute.
ExtractTo(i, platform, dest_path, alloc, eof, fs) ==
  IF is_directory(rdItems[i]) THEN ExtractDirectory(i, platform, dest_path, fs)
  ELSE IF fs = "mkdir_fails"
  THEN /\ ex' = [ex EXCEPT !.next = i + 1, !.platform = Append(ex.platform, platform),
                           !.status = "err"]
       /\ UNCHANGED <<pos, out>>
  ELSE ExtractFile(i, platform, dest_path, fs, copy(src, rdItems[i], pos, alloc, eof))

\* extract: one turn of the loop over reader.items(), for the item at ex.next.
\* fs tells whether create_dir_all and std::fs::write work.
ExtractItem(alloc, eof, fs) ==
  /\ ex.status = "running"
  /\ \E platform \in {platform_path(rdItems[ex.next].path_bytes, ex.sep)} :
       IF is_absolute(platform, ex.sep)
       THEN /\ fs = "ok"
            /\ ex' = [ex EXCEPT !.next = ex.next + 1,
                                !.platform = Append(ex.platform, platform),
                                !.status = "err"]
            /\ UNCHANGED <<pos, out>>
       ELSE ExtractTo(ex.next, platform, join(dest_dir(ex.sep), platform, ex.sep), alloc, eof, fs)
  /\ UNCHANGED <<items, written, sink, call, result, failed, src, checks, rd, rdError, rdItems, q, cr>>

----------------------------------------------------------------------------
(* SpecExtract: a bank is written and the kibank tool extracts it, on a    *)
(* Unix or a Windows host.                                                 *)

\* What add is called with: a sample "x" (stored as samples/x) and
\* backgrounds named background.png, /abs, ../x, C:\x and \x.
ExtractNamed ==
  { [kind |-> "Sample", file_name |-> <<120>>],
    [kind |-> "Background", file_name |-> BackgroundPng],
    [kind |-> "Background", file_name |-> <<PATH_SEPARATOR, 97, 98, 115>>],
    [kind |-> "Background", file_name |-> <<Dot, Dot, PATH_SEPARATOR, 120>>],
    [kind |-> "Background", file_name |-> <<67, Colon, WindowsSeparator, 120>>],
    [kind |-> "Background", file_name |-> <<WindowsSeparator, 120>>] }

NextExtract ==
  \/ /\ ~written
     /\ \E named \in ExtractNamed, contents \in {<<>>, <<7>>} :
          Add(named.kind, named.file_name, contents)
  \/ ~written /\ Write(SinkOk)
  \/ \E sep \in {PATH_SEPARATOR, WindowsSeparator}, chk \in BOOLEAN : ExtractOpen(sep, chk)
  \/ \E alloc \in BOOLEAN, eof \in BOOLEAN, fs \in {"ok", "mkdir_fails", "write_fails"} :
       ExtractItem(alloc, eof, fs)

SpecExtract == Init /\ [][NextExtract]_vars

\* A path with every bank separator replaced by the host's main separator.
Translated(path_bytes, sep) ==
  [i \in 1..Len(path_bytes) |-> IF path_bytes[i] = PATH_SEPARATOR THEN sep ELSE path_bytes[i]]

\* C13: on extraction every '/' of an item's path is replaced by the host's
\* main separator before the path is joined to the destination; on a host
\* whose separator is not '/' the translated path holds no '/'.
C13_Separator ==
  \A k \in 1..Len(ex.platform) :
    /\ ex.platform[k] = Translated(rdItems[k].path_bytes, ex.sep)
    /\ ex.sep # PATH_SEPARATOR =>
         \A j \in 1..Len(ex.platform[k]) : ex.platform[k][j] # PATH_SEPARATOR

\* The components of a path on the host: the pieces between separators,
\* without the empty ones and the "." ones.
RECURSIVE HostComponents(_, _, _)
HostComponents(p, seps, piece) ==
  IF p = <<>> THEN (IF piece \in {<<>>, <<Dot>>} THEN <<>> ELSE <<piece>>)
  ELSE IF Head(p) \in seps
  THEN (IF piece \in {<<>>, <<Dot>>} THEN <<>> ELSE <<piece>>) \o HostComponents(Tail(p), seps, <<>>)
  ELSE HostComponents(Tail(p), seps, Append(piece, Head(p)))

\* Where the components lead once each ".." has taken back the one before it.
RECURSIVE Resolved(_, _)
Resolved(cs, acc) ==
  IF cs = <<>> THEN acc
  ELSE IF Head(cs) = <<Dot, Dot>>
  THEN Resolved(Tail(cs), IF acc = <<>> THEN acc ELSE SubSeq(acc, 1, Len(acc) - 1))
  ELSE Resolved(Tail(cs), Append(acc, Head(cs)))

\* One component sequence leads strictly below another.
Below(r, d) == Len(r) > Len(d) /\ SubSeq(r, 1, Len(d)) = d

\* The path names a place inside the destination directory of the host.
Inside(path, sep) ==
  Below(Resolved(HostComponents(path, HostSeparators(sep), <<>>), <<>>),
        HostComponents(dest_dir(sep), HostSeparators(sep), <<>>))

\* C14: extract ends with an error at an item whose translated path is absolute
\* and makes nothing for it; whatever file or directory it makes for an item
\* lies inside the destination directory.
C14_Contained ==
  /\ \A k \in 1..Len(ex.platform) :
       is_absolute(ex.platform[k], ex.sep) =>
         /\ ex.status = "err"
         /\ \A e \in 1..Len(ex.made) : ex.made[e].idx # k
  /\ \A e \in 1..Len(ex.made) : Inside(ex.made[e].path, ex.sep)

----------------------------------------------------------------------------
(* SpecLayout: a writer over a sink that takes every byte is given items   *)
(* of several kinds, in any order, and commits them.                       *)

\* What add is called with: the background image, samples named "x", "\xff"
\* and "a\0b", and a Delay preset "d".
LayoutNamed == { [kind |-> "Background", file_name |-> BackgroundPng],
                 [kind |-> "Sample", file_name |-> <<120>>],
                 [kind |-> "Sample", file_name |-> <<255>>],
                 [kind |-> "Sample", file_name |-> <<97, 0, 98>>],
                 [kind |-> "Delay", file_name |-> <<100>>] }

LayoutContents == { <<>>, <<8, 9>> }

NextLayout ==
  \/ \E named \in LayoutNamed, contents \in LayoutContents :
       ~written /\ Add(named.kind, named.file_name, contents)
  \/ ~written /\ AddMetadata(FullMetadata)
  \/ ~written /\ Write(SinkOk)

SpecLayout == Init /\ [][NextLayout]_vars

\* The location count the header of the written bytes holds.
SinkCount == ToNat(BytesAt(sink, 16, 8))

\* The location table of the written bytes.
SinkTable == ReadLocations(sink, location_block_start, SinkCount)

\* Where the name block of the written bytes starts, after its length field.
SinkNamesStart == location_block_start + SinkCount * BLOCK_SIZE + U64Bytes

\* The length field of the name block of the written bytes.
SinkNamesLength == ToNat(BytesAt(sink, SinkNamesStart - U64Bytes, U64Bytes))

\* The bytes before the first zero byte at or after offset p.
NameFrom(b, p) == SubSeq(b, p + 1, IndexFrom(b, 0, p + 1) - 1)

\* The kinds among the items that declare a directory.
DirectoryKinds(its) == {k \in Kinds : HasKind(its, k) /\ directory(k).some}

IsDirectoryLocation(l) == l.data_offset = U64Zero /\ l.data_size = U64Zero

\* C15: the location count of the header is the number of items (the default
\* metadata included) plus the number of kinds present that declare a
\* directory; the table has one directory entry per such kind, right before
\* the first item of the kind, with data_offset 0 and data_size 0.
C15_DirectoryEntries ==
  written =>
    /\ SinkCount = Len(items) + Cardinality(DirectoryKinds(items))
    /\ SinkCount = Len(ExpectedCatalog)
    /\ Cardinality({i \in 1..SinkCount : IsDirectoryLocation(SinkTable[i])})
         = Cardinality(DirectoryKinds(items))
    /\ \A i \in 1..SinkCount :
         /\ ExpectedCatalog[i].marker <=> IsDirectoryLocation(SinkTable[i])
         /\ ExpectedCatalog[i].marker =>
              NameFrom(sink, SinkNamesStart + ToNat(SinkTable[i].file_name_offset))
                = ExpectedCatalog[i].path

\* Two samples were added and committed, and a kind without a directory.
C15_Witness ==
  /\ written
  /\ Len(ItemsOfKind(items, "Sample")) = 2
  /\ SinkCount = 4
  /\ IsDirectoryLocation(SinkTable[2])
  /\ ~IsDirectoryLocation(SinkTable[3])

\* The positions of the catalog that stand for items, in order.
RECURSIVE ItemPositions(_, _)
ItemPositions(catalog, i) ==
  IF i > Len(catalog) THEN <<>>
  ELSE (IF catalog[i].marker THEN <<>> ELSE <<i>>) \o ItemPositions(catalog, i + 1)

\* The payload range of location l lies in the bytes b and holds contents.
Holds(b, l, contents) ==
  /\ l.data_size = U64(Len(contents))
  /\ ToNat(l.data_offset) + Len(contents) <= Len(b)
  /\ BytesAt(b, ToNat(l.data_offset), Len(contents)) = contents

\* The payloads of the table, at the positions ps of the catalog, follow one
\* another from offset first to the end of the bytes b.
RECURSIVE Chained(_, _, _, _, _)
Chained(b, table, catalog, ps, first) ==
  IF ps = <<>> THEN first = Len(b)
  ELSE /\ table[Head(ps)].data_offset = U64(first)
       /\ Holds(b, table[Head(ps)], catalog[Head(ps)].contents)
       /\ Chained(b, table, catalog, Tail(ps), first + Len(catalog[Head(ps)].contents))

\* C16: with N locations and a name block of length L, the first item's
\* data_offset is 24 + 24*N + 8 + L, each later item's is the data_offset plus
\* the data_size of the item before it in (kind, insertion) order, the bytes
\* at each item's range are its contents, and the last range ends where the
\* written bytes end.
C16_Payloads ==
  written =>
    /\ ItemPositions(ExpectedCatalog, 1) # <<>>
    /\ Chained(sink, SinkTable, ExpectedCatalog, ItemPositions(ExpectedCatalog, 1),
               24 + 24 * SinkCount + 8 + SinkNamesLength)

\* A Delay preset was added before a sample, both with contents, and the bank
\* committed: the sample's payload is laid before the preset's.
C16_Witness ==
  /\ written
  /\ Len(items) = 3
  /\ items[1].kind = "Delay" /\ items[1].contents # <<>>
  /\ items[2].kind = "Sample" /\ items[2].contents # <<>>
  /\ U64Less(SinkTable[3].data_offset, SinkTable[5].data_offset)

\* The name-block buffer write() fills in its loop over the kinds.
EmittedNames(its) ==
  Locations(kinds(its), its, [locs |-> <<>>, names |-> <<>>, off |-> FirstDataOffset(its)]).names

\* From position i of the catalog on, each location's name offset is at, the
\* place in block where its zero-terminated name starts, and the names fill
\* the block to its end.
RECURSIVE NamesChained(_, _, _, _, _)
NamesChained(block, table, catalog, i, at) ==
  IF i > Len(catalog) THEN at = Len(block)
  ELSE /\ table[i].file_name_offset = U64(at)
       /\ at + Len(ToStringLossy(catalog[i].path)) + 1 <= Len(block)
       /\ BytesAt(block, at, Len(ToStringLossy(catalog[i].path)) + 1)
            = ToStringLossy(catalog[i].path) \o <<0>>
       /\ NamesChained(block, table, catalog, i + 1, at + Len(ToStringLossy(catalog[i].path)) + 1)

\* C17: the name-block length write() computes up front is the length of the
\* name-block buffer it emits and the length field it writes; each location's
\* name offset is where its own zero-terminated name starts in the block, and
\* the offsets rise strictly from 0 in table order.
C17_NameBlock ==
  written =>
    /\ file_name_block_length(items) = Len(EmittedNames(items))
    /\ SinkNamesLength = Len(EmittedNames(items))
    /\ SinkNamesStart + SinkNamesLength <= Len(sink)
    /\ BytesAt(sink, SinkNamesStart, SinkNamesLength) = EmittedNames(items)
    /\ NamesChained(BytesAt(sink, SinkNamesStart, SinkNamesLength), SinkTable, ExpectedCatalog, 1, 0)
    /\ SinkTable[1].file_name_offset = U64Zero
    /\ \A i \in 1..(SinkCount - 1) :
         U64Less(SinkTable[i].file_name_offset, SinkTable[i + 1].file_name_offset)

\* A committed bank with a sample whose name is not UTF-8, emitted as three
\* bytes for the one stored, next to another item.
C17_Witness ==
  /\ written
  /\ Len(items) = 3
  /\ \E i \in 1..Len(items) : Len(file_name_bytes(items[i])) = Len(items[i].path_os) + 2
  /\ SinkNamesLength = Len(EmittedNames(items))

----------------------------------------------------------------------------
(* SpecHeader: a reader on containers whose header is sound, wrong in any  *)
(* of its three fields, or cut short.                                      *)

\* "RIFF", "\r\n\x1aA" and "Bank0002"
WrongFileId == <<82, 73, 70, 70>>
WrongCheckBytes == <<13, 10, 26, 65>>
WrongFormatVersion == <<66, 97, 110, 107, 48, 48, 48, 50>>

\* The container with the given header fields and location table.
Headed(file_id, check_bytes, format_version, table) ==
  file_id \o check_bytes \o format_version
  \o U64(Len(table)) \o TableBytes(table)
  \o U64(Len(CraftedNames)) \o CraftedNames \o CraftedPayload

\* The tables behind the header: none or one location of any shape, and two
\* locations that overlap.
HeaderTables ==
  {table \in CraftedTables : Len(table) <= 1}
  \cup { << CraftedLocation("head", PayloadStart(2)), CraftedLocation("tail", PayloadStart(2)) >> }

\* Where a source is cut short: inside each header field and the count.
HeaderCuts == { 0, 2, 4, 6, 8, 12, 16, 20 }

HeaderSources ==
  { Headed(file_id, check_bytes, format_version, table) :
      file_id \in {FILE_ID, WrongFileId},
      check_bytes \in {CORRUPTION_CHECK_BYTES, WrongCheckBytes},
      format_version \in {FORMAT_VERSION, WrongFormatVersion},
      table \in HeaderTables }
  \cup { Take(Crafted(<<>>), n) : n \in HeaderCuts }

InitHeader ==
  /\ items = <<>>
  /\ written = FALSE
  /\ sink = <<>>
  /\ call = "new"
  /\ result = "Ok"
  /\ failed = 0
  /\ src \in HeaderSources
  /\ checks \in BOOLEAN
  /\ rd = "none"
  /\ rdError = NoError
  /\ rdItems = <<>>
  /\ pos = U64Zero
  /\ out = NoOut
  /\ q = NoQuery
  /\ ex = NoExtract
  /\ cr = NoCreate

SpecHeader == InitHeader /\ [][NextCrafted]_vars

\* The field of n bytes at offset p of the source is there and is not what
\* the format asks for.
Mismatch(p, n, expected) == CanRead(src, p, n) /\ BytesAt(src, p, n) # expected

\* C18: BankReader::new checks the magic, then the corruption-check bytes, then
\* the format version; the first mismatch ends the open with its error ("Not
\* a Kilohearts bank" for the magic, a message naming the unexpected bytes for
\* the other two); an open that ends on any of its checks gives no reader and
\* no item.
C18_HeaderChecks ==
  rd # "none" =>
    /\ Mismatch(0, 4, FILE_ID) =>
         rd = "err" /\ rdError.text = "Not a Kilohearts bank"
    /\ ~Mismatch(0, 4, FILE_ID) /\ Mismatch(4, 4, CORRUPTION_CHECK_BYTES) =>
         /\ rd = "err"
         /\ rdError.text = "Unexpected check bytes "
         /\ rdError.arg = escape_ascii(BytesAt(src, 4, 4))
    /\ ~Mismatch(0, 4, FILE_ID) /\ ~Mismatch(4, 4, CORRUPTION_CHECK_BYTES)
         /\ Mismatch(8, 8, FORMAT_VERSION) =>
         /\ rd = "err"
         /\ rdError.text = "Unexpected format version "
         /\ rdError.arg = escape_ascii(BytesAt(src, 8, 8))
    /\ rd = "err" => rdError # NoError
    /\ rd # "open" => rdItems = <<>> /\ out = NoOut

\* The open of a container with a sound magic, wrong check bytes and a wrong
\* version has ended with the error that names the check bytes \r\n\x1aA.
C18_Witness ==
  /\ rd = "err"
  /\ CanRead(src, 0, 16)
  /\ BytesAt(src, 0, 4) = FILE_ID
  /\ BytesAt(src, 8, 8) = WrongFormatVersion
  /\ rdError.text = "Unexpected check bytes "
  /\ rdError.arg = <<92, 114, 92, 110, 92, 120, 49, 97, 65>>
  /\ rdItems = <<>>

----------------------------------------------------------------------------
\* Where the name block of the source starts, and its length field.
NamesStart == location_block_start + Len(SourceTable) * BLOCK_SIZE + U64Bytes
NamesLength == BytesAt(src, NamesStart - U64Bytes, U64Bytes)

\* The name of location l cannot be read inside the name block: its place,
\* name-block base + name offset, is at or past the end of the source, or the
\* read from there ends beyond the name block.
NameOutside(l) ==
  \/ ~Small(l.file_name_offset)
  \/ NamesStart + ToNat(l.file_name_offset) >= Len(src)
  \/ ToNat(l.file_name_offset)
       + Len(ReadUntilZero(src, NamesStart + ToNat(l.file_name_offset))) > ToNat(NamesLength)

\* The name of the item is the bytes of the name block at its name offset.
NameInside(item) ==
  /\ Small(item.location.file_name_offset)
  /\ ToNat(item.location.file_name_offset) + Len(item.path_bytes) <= ToNat(NamesLength)
  /\ BytesAt(src, NamesStart + ToNat(item.location.file_name_offset), Len(item.path_bytes))
       = item.path_bytes

\* C19: the open fails when a name read gives nothing or ends beyond the name
\* block; in an open reader the name of every item lies wholly inside the
\* name block and holds no zero byte.
C19_NamesInBlock ==
  /\ rd # "none" /\ (\E i \in 1..Len(SourceTable) : NameOutside(SourceTable[i])) => rd # "open"
  /\ rd = "open" =>
       \A i \in 1..Len(rdItems) :
         /\ NameInside(rdItems[i])
         /\ \A k \in 1..Len(rdItems[i].path_bytes) : rdItems[i].path_bytes[k] # 0

----------------------------------------------------------------------------
\* The most bytes read_contents can return for the item, 0 when it cannot
\* succeed whatever the allocator and the source do.
MaxOf(ns) == IF ns = {} THEN 0 ELSE LET n == CHOOSE m \in ns : \A k \in ns : k <= m IN n

MostRead(item) ==
  MaxOf({ Len(read_contents(src, item, pos, c[1], c[2]).bytes) :
            c \in { d \in AllocChoices(item) \X EofChoices(item.location.data_offset) :
                      read_contents(src, item, pos, d[1], d[2]).status = "ok" } })

RECURSIVE TotalRead(_)
TotalRead(its) == IF its = <<>> THEN 0 ELSE MostRead(Head(its)) + TotalRead(Tail(its))

\* C20: in an open reader the bytes read_contents can return, summed over the
\* file items of the catalog, are no more than the source holds.
C20_NoAmplification ==
  rd = "open" => TotalRead(FileItems(rdItems)) <= Len(src)

\* Two file items whose payloads share no byte were opened and the second was
\* read: together they give the three bytes of the payload.
C20_Witness ==
  /\ rd = "open"
  /\ Len(FileItems(rdItems)) = 2
  /\ TotalRead(FileItems(rdItems)) = Len(CraftedPayload)
  /\ out.op = "read_contents" /\ out.idx = 2 /\ out.status = "ok" /\ Len(out.bytes) = 1

----------------------------------------------------------------------------
(* bin/kibank.rs: create.  A file met on the command line is its path and  *)
(* what std::fs::read gives for it.  The run is taken one stretch of the   *)
(* function at a time: the collection, the background, the metadata, one   *)
(* turn of the loop over the rest of the items, and write().               *)

\* The files that ItemKind::from knows, as the collection keeps them.
RECURSIVE Known(_)
Known(files) ==
  IF files = <<>> THEN <<>>
  ELSE (IF from(Head(files).path) = "None" THEN <<>> ELSE <<Head(files)>>) \o Known(Tail(files))

\* items.iter().find(|item| item.kind == kind): the place of the first file of
\* the kind in the iteration order, 0 when there is none.
FindFirst(found, kind) ==
  IF \E i \in 1..Len(found) : from(found[i].path) = kind
  THEN CHOOSE i \in 1..Len(found) :
         from(found[i].path) = kind /\ \A j \in 1..(i - 1) : from(found[j].path) # kind
  ELSE 0

\* items.iter().filter(|item| item.kind == kind).count()
CountKind(found, kind) == Cardinality({i \in 1..Len(found) : from(found[i].path) = kind})

\* create: metadata_from_cli
metadata_from_cli(cli) ==
  \/ cli.author.some \/ cli.name.some \/ cli.description.some
  \/ cli.id.some \/ cli.version.some \/ cli.hash.some

\* create: the record built from the options and the record of the file.
MergedMetadata(cli, metadata_from_file) ==
  [author |-> IF cli.author.some THEN cli.author.v ELSE metadata_from_file.author,
   name |-> IF cli.name.some THEN cli.name.v ELSE metadata_from_file.name,
   description |-> IF cli.description.some THEN cli.description.v
                   ELSE metadata_from_file.description,
   id |-> IF cli.id.some THEN cli.id.v ELSE metadata_from_file.id,
   version |-> IF cli.version.some THEN cli.version ELSE metadata_from_file.version,
   hash |-> IF cli.hash.some THEN cli.hash ELSE metadata_from_file.hash,
   extra |-> metadata_from_file.extra]

\* create: metadata_from_file, for the file at place i of found (0: no file):
\* the default record, the parsed file, or the error of the read or the parse.
MetadataFromFile(found, i) ==
  IF i = 0 THEN [ok |-> TRUE, v |-> DefaultMetadata]
  ELSE IF ~found[i].file.ok THEN [ok |-> FALSE, v |-> DefaultMetadata]
  ELSE parse_metadata(found[i].file.bytes)

\* create: the files are collected.  found is any order of the collected
\* files: a HashSet iterates in an order its random hasher decides.
CreateCollect(files, found, cli) ==
  /\ cr.pc = "idle"
  /\ call = "new"
  /\ cr' = [NoCreate EXCEPT !.pc = "background", !.collected = Known(files), !.found = found,
                            !.cli = cli]
  /\ UNCHANGED <<writerVars, readerVars, q, ex>>

\* create: the background, the file at place i of found.
CreateBackgroundFile(i, extension) ==
  IF extension.some /\ has_extension("Background", extension.v)
  THEN /\ call' = "add_file"
       /\ result' = IF cr.found[i].file.ok THEN "Ok" ELSE "Err"
       /\ items' = IF cr.found[i].file.ok
                   THEN add(items, "Background",
                            BACKGROUND_FILE_STEM \o <<Dot>> \o extension.v, cr.found[i].file.bytes)
                   ELSE items
       /\ cr' = [cr EXCEPT !.pc = IF cr.found[i].file.ok THEN "metadata" ELSE "err"]
  ELSE /\ cr' = [cr EXCEPT !.pc = "metadata"]
       /\ UNCHANGED <<items, call, result>>

\* create: "Background is first."
CreateBackground ==
  /\ cr.pc = "background"
  /\ \E i \in {FindFirst(cr.found, "Background")} :
       IF i = 0
       THEN cr' = [cr EXCEPT !.pc = "metadata"] /\ UNCHANGED <<items, call, result>>
       ELSE CreateBackgroundFile(i, PathExtension(cr.found[i].path))
  /\ UNCHANGED <<written, sink, failed, readerVars, q, ex>>

\* create: the merged record goes to add_metadata, unless the file failed.
CreateMerged(metadata_from_file) ==
  IF metadata_from_file.ok
  THEN /\ call' = "add_metadata"
       /\ result' = "Ok"
       /\ items' = add(items, "Metadata", FILE_NAME,
                       MetadataContents(MergedMetadata(cr.cli, metadata_from_file.v)))
       /\ cr' = [cr EXCEPT !.pc = "rest", !.next = 1,
                           !.metadata = Some(MergedMetadata(cr.cli, metadata_from_file.v))]
  ELSE /\ cr' = [cr EXCEPT !.pc = "err"]
       /\ UNCHANGED <<items, call, result>>

\* create: the one metadata file goes to add_file as it is.
CreateUntouched(i) ==
  /\ call' = "add_file"
  /\ result' = IF cr.found[i].file.ok THEN "Ok" ELSE "Err"
  /\ items' = IF cr.found[i].file.ok
              THEN add(items, "Metadata", FILE_NAME, cr.found[i].file.bytes)
              ELSE items
  /\ cr' = [cr EXCEPT !.pc = IF cr.found[i].file.ok THEN "rest" ELSE "err", !.next = 1]

\* create: "Merge metadata given on the command line and from the files."
CreateMetadata ==
  /\ cr.pc = "metadata"
  /\ \E i \in {FindFirst(cr.found, "Metadata")} :
       IF CountKind(cr.found, "Metadata") > 1 \/ metadata_from_cli(cr.cli)
       THEN CreateMerged(MetadataFromFile(cr.found, i))
       ELSE IF i # 0 THEN CreateUntouched(i)
       ELSE cr' = [cr EXCEPT !.pc = "rest", !.next = 1] /\ UNCHANGED <<items, call, result>>
  /\ UNCHANGED <<written, sink, failed, readerVars, q, ex>>

\* create: one turn of the loop over the rest of the items, for the file at
\* place cr.next of found; past the last file the run goes on to write().
CreateRest ==
  /\ cr.pc = "rest"
  /\ IF cr.next > Len(cr.found)
     THEN cr' = [cr EXCEPT !.pc = "write"] /\ UNCHANGED <<items, call, result>>
     ELSE IF from(cr.found[cr.next].path) \in {"Metadata", "Background"}
             \/ ~PathFileName(cr.found[cr.next].path).some
     THEN cr' = [cr EXCEPT !.next = cr.next + 1] /\ UNCHANGED <<items, call, result>>
     ELSE IF ~cr.found[cr.next].file.ok
     THEN cr' = [cr EXCEPT !.pc = "err"] /\ UNCHANGED <<items, call, result>>
     ELSE /\ call' = "add"
          /\ result' = "Ok"
          /\ items' = add(items, from(cr.found[cr.next].path),
                          PathFileName(cr.found[cr.next].path).v, cr.found[cr.next].file.bytes)
          /\ cr' = [cr EXCEPT !.next = cr.next + 1]
  /\ UNCHANGED <<written, sink, failed, readerVars, q, ex>>

\* create: writer.write()
CreateWrite == cr.pc = "write" /\ ~written /\ Write(SinkOk)

----------------------------------------------------------------------------
(* SpecCreate: the kibank tool creates a bank from files met on the        *)
(* command line, with or without metadata options.                         *)

\* Most files met on the command line.
MaxCollected == 2

\* {"id":"I","name":"n","author":"a","description":"d","version":3,"hash":"h","x":"y"}
MetadataA ==
  <<123>> \o JsonString(Key_id) \o <<58>> \o JsonString(<<73>>)
  \o <<44>> \o JsonString(Key_name) \o <<58>> \o JsonString(<<110>>)
  \o <<44>> \o JsonString(Key_author) \o <<58>> \o JsonString(<<97>>)
  \o <<44>> \o JsonString(Key_description) \o <<58>> \o JsonString(<<100>>)
  \o <<44>> \o JsonString(Key_version) \o <<58, 51>>
  \o <<44>> \o JsonString(Key_hash) \o <<58>> \o JsonString(<<104>>)
  \o <<44>> \o JsonString(<<120>>) \o <<58>> \o JsonString(<<121>>)
  \o <<125>>

\* The default record with the author "B" and the name "N", as Bank Maker
\* writes it.
MetadataB == to_vec_pretty([DefaultMetadata EXCEPT !.author = <<66>>, !.name = <<78>>])

\* a/index.json, b/index.json, c/index.json (not JSON), i/background.png,
\* s/x.wav, s/y.wav (unreadable) and readme.txt
CreateFiles ==
  { [path |-> <<97, PATH_SEPARATOR>> \o FILE_NAME, file |-> [ok |-> TRUE, bytes |-> MetadataA]],
    [path |-> <<98, PATH_SEPARATOR>> \o FILE_NAME, file |-> [ok |-> TRUE, bytes |-> MetadataB]],
    [path |-> <<99, PATH_SEPARATOR>> \o FILE_NAME, file |-> [ok |-> TRUE, bytes |-> <<123>>]],
    [path |-> <<105, PATH_SEPARATOR>> \o BackgroundPng, file |-> [ok |-> TRUE, bytes |-> <<7>>]],
    [path |-> <<115, PATH_SEPARATOR, 120, Dot, 119, 97, 118>>,
     file |-> [ok |-> TRUE, bytes |-> <<8, 9>>]],
    [path |-> <<115, PATH_SEPARATOR, 121, Dot, 119, 97, 118>>, file |-> ReadError],
    [path |-> <<114, 101, 97, 100, 109, 101, Dot, 116, 120, 116>>,
     file |-> [ok |-> TRUE, bytes |-> <<>>]] }

\* The sequences of distinct elements of a set, up to a length.
Arrangements(set, n) ==
  UNION { { f \in [1..k -> set] : \A i, j \in 1..k : i # j => f[i] # f[j] } : k \in 0..n }

\* The orders a HashSet of the collected files may iterate in.
Orders(collected) ==
  { f \in [1..Len(collected) -> {collected[i] : i \in 1..Len(collected)}] :
      \A i, j \in 1..Len(collected) : i # j => f[i] # f[j] }

\* --author Z; --id J --version 9; every option.
CreateOptions ==
  { NoOptions,
    [NoOptions EXCEPT !.author = Some(<<90>>)],
    [NoOptions EXCEPT !.id = Some(<<74>>), !.version = Some(9)],
    [author |-> Some(<<90>>), name |-> Some(<<89>>), description |-> Some(<<88>>),
     id |-> Some(<<74>>), version |-> Some(9), hash |-> Some(<<102>>)] }

NextCreate ==
  \/ \E files \in Arrangements(CreateFiles, MaxCollected), cli \in CreateOptions :
       \E found \in Orders(Known(files)) : CreateCollect(files, found, cli)
  \/ CreateBackground
  \/ CreateMetadata
  \/ CreateRest
  \/ CreateWrite

SpecCreate == Init /\ [][NextCreate]_vars

\* The metadata items the writer holds.
MetadataItems == ItemsOfKind(items, "Metadata")

\* The place among the collected files of the first metadata file, 0 when
\* there is none, and the record that file holds.
FirstMetadata == FindFirst(cr.collected, "Metadata")
FirstRecord == MetadataFromFile(cr.collected, FirstMetadata)

\* A field of the record the claim describes: the option when it is given,
\* else the value of the file.
Preferred(option, value) == IF option.some THEN option.v ELSE value
PreferredOption(option, value) == IF option.some THEN option ELSE value

\* The metadata step of create has been taken and went through.
MetadataDone == cr.pc \in {"rest", "write"}

\* C21: when an option is given or more than one metadata file was collected,
\* create adds exactly one metadata record: author, name, description, id,
\* version and hash are the options given, else the values of the first
\* collected metadata file (the defaults when there is none), and extra is
\* that file's; with no option and one metadata file, the file's bytes are
\* added as they are under index.json.
C21_MetadataMerge ==
  MetadataDone /\ FirstRecord.ok =>
    IF metadata_from_cli(cr.cli) \/ CountKind(cr.collected, "Metadata") > 1
    THEN /\ Len(MetadataItems) = 1
         /\ cr.metadata.some
         /\ MetadataItems[1].contents = MetadataContents(cr.metadata.v)
         /\ cr.metadata.v.author = Preferred(cr.cli.author, FirstRecord.v.author)
         /\ cr.metadata.v.name = Preferred(cr.cli.name, FirstRecord.v.name)
         /\ cr.metadata.v.description = Preferred(cr.cli.description, FirstRecord.v.description)
         /\ cr.metadata.v.id = Preferred(cr.cli.id, FirstRecord.v.id)
         /\ cr.metadata.v.version = PreferredOption(cr.cli.version, FirstRecord.v.version)
         /\ cr.metadata.v.hash = PreferredOption(cr.cli.hash, FirstRecord.v.hash)
         /\ cr.metadata.v.extra = FirstRecord.v.extra
    ELSE FirstMetadata # 0 =>
           /\ Len(MetadataItems) = 1
           /\ MetadataItems[1].path_os = FILE_NAME
           /\ MetadataItems[1].contents = cr.collected[FirstMetadata].file.bytes

----------------------------------------------------------------------------
\* The item lists that hold, for each kind, the items of its in the same
\* order: the ways the adds of different kinds can be interleaved.
Interleavings(its) ==
  { [i \in 1..Len(its) |-> its[f[i]]] :
      f \in { g \in [1..Len(its) -> 1..Len(its)] :
                /\ \A i, j \in 1..Len(its) : i # j => g[i] # g[j]
                /\ \A i, j \in 1..Len(its) :
                     i < j /\ its[g[i]].kind = its[g[j]].kind => g[i] < g[j] } }

\* C22: what write() emits depends only on the sequence of (file name,
\* contents) added for each kind: however the adds of different kinds are
\* interleaved the bytes are the same, and they are the same each time.
C22_OrderOfKinds ==
  written =>
    \A its \in Interleavings(items) : sink = Container(its)

\* A Delay preset was added before a sample and the bank committed: the adds
\* can be interleaved in more than one way.
C22_Witness ==
  /\ written
  /\ Len(items) = 3
  /\ items[1].kind = "Delay"
  /\ items[2].kind = "Sample"
  /\ Cardinality(Interleavings(items)) = 6
  /\ sink = Container(<<items[3], items[2], items[1]>>)

----------------------------------------------------------------------------
\* The item list a write() leaves: the one it found, with the default
\* metadata behind it when it held no metadata.
WithSynthesized(its) ==
  IF \E i \in 1..Len(its) : its[i].kind = "Metadata" THEN its ELSE its \o Blank

\* C23: a write() that fails on the sink leaves the writer unsealed, with the
\* default metadata it synthesized in the item list; after it an add is taken
\* and a write() that the sink accepts emits a whole container, from the
\* header on, behind what the sink already holds.
C23_FailedWrite ==
  [][ /\ ~written /\ call' = "write" /\ result' = "Err" =>
           ~written' /\ items' = WithSynthesized(items)
      /\ failed >= 1 /\ ~written /\ call' \in {"add", "add_metadata"} =>
           result' = "Ok" /\ Len(items') = Len(items) + 1 /\ sink' = sink
      /\ failed >= 1 /\ ~written /\ call' = "write" =>
           items' = WithSynthesized(items)
      /\ failed >= 1 /\ ~written /\ call' = "write" /\ result' = "Ok" =>
           /\ written'
           /\ sink' = sink \o Container(items')
           /\ SubSeq(sink', Len(sink) + 1, Len(sink) + Len(FILE_ID)) = FILE_ID ]_vars

\* A write() on an empty writer failed after 30 bytes, the background was
\* added, and the second write() emitted the whole bank behind those bytes.
C23_Witness ==
  /\ written
  /\ failed = 1
  /\ Len(items) = 2
  /\ items[1] = Blank[1]
  /\ items[2].kind = "Background"
  /\ sink = Take(Container(Blank), 30) \o Container(items)

----------------------------------------------------------------------------
\* The location is that of a file and the true sum data_offset + data_size is
\* 2^64 or more.
EndsBeyondU64(l) == l.data_size # U64Zero /\ U64Add(l.data_offset, l.data_size).overflow

\* C24: data_end never wraps in a way that lets an overlap through: a
\* container with a file location whose data_offset + data_size is 2^64 or
\* more and whose range overlaps that of another file location is not opened.
C24_WrapRejected ==
  rd # "none"
    /\ (\E i, j \in 1..Len(SourceTable) :
          /\ i # j
          /\ EndsBeyondU64(SourceTable[i])
          /\ RangesOverlap(SourceTable[i], SourceTable[j]))
    => rd # "open"

----------------------------------------------------------------------------
(* SpecInOrder: a reader on a crafted container copies its file items out  *)
(* in catalog order, as extract does, with nothing else done on the reader *)
(* and a destination that takes the bytes.                                 *)

\* BankReader::copy of the next file item of the catalog.
CopyNext ==
  /\ out.status \in {"none", "ok"}
  /\ \E i \in {NextFile(rdItems, Copied)} \ {0} :
       \E alloc \in AllocChoices(rdItems[i]), eof \in EofChoices(pos) :
         Copy(i, alloc, eof, TRUE)

NextInOrder ==
  \/ OpenSource
  \/ CopyNext

SpecInOrder == InitCrafted /\ [][NextInOrder]_vars

\* read_contents can return the bytes for the item.
ReadGives(item, bytes) ==
  \E alloc \in AllocChoices(item), eof \in EofChoices(item.location.data_offset) :
    /\ read_contents(src, item, pos, alloc, eof).status = "ok"
    /\ read_contents(src, item, pos, alloc, eof).bytes = bytes

\* C25: for every container BankReader::new accepts, wherever its payloads
\* lie, the copy of each file item in catalog order writes the bytes that
\* read_contents returns for the item.
C25_CopyAsRead ==
  rd = "open" /\ out.op = "copy" /\ out.status = "ok" =>
    ReadGives(rdItems[out.idx], out.bytes)

====
